---------------------------- MODULE Spec2Model ----------------------------
(***************************************************************************)
(* Quick Brush Size: the settings store (settings_manager.py), the two     *)
(* paired AcceleratingKeyHandler objects with their burst and poll timers  *)
(* (quick_brush_size.py) and the threshold checkbox of the docker          *)
(* (docker.py).                                                            *)
(*                                                                         *)
(* Units.  A Python number is modelled as an integer count of thousandths: *)
(* a time of 0.200 s is 200 (milliseconds), the count 3 is 3000, the rate  *)
(* 8.0 is 8000.  time.time() is the integer clock `now` in milliseconds.   *)
(* The handler attributes SLOW_BURST_COUNT and MULTIPLIER_BURST_COUNT are  *)
(* plain integers (the int() of _apply_to_handler).                        *)
(***************************************************************************)
EXTENDS Integers, Sequences, FiniteSets, TLC

VARIABLES
    now,                  \* time.time(), in ms
    host,                 \* Krita: "up", "noview" (no active view), "down" (no instance),
                          \* "raises" (its calls raise an exception)
    brush_size,           \* the host's brush size, in units of EPSILON / 2
    \* ---- SettingsManager
    current,              \* _current
    saved,                \* _saved
    before_reset,         \* _before_reset: <<>> is None, <<s>> the snapshot s
    handlers,             \* _handlers, the push list
    storage,              \* Krita's persistent settings of group QuickBrushSize
    \* ---- the two AcceleratingKeyHandler objects, by direction
    handler,
    \* ---- the BrushSizeKeyEventFilter of the window
    event_filter,         \* decrease_keys, increase_keys, pressed_keys,
                          \* _shortcuts_loaded
    shortcuts,            \* the key combinations the host has for each action
    \* ---- observation
    last_result,          \* what the last call that returns a value returned
    calls,                \* the last two calls on the settings store, each with
                          \* _current as it was before the call
    ncalls                \* how many calls the settings store has had

storeVars == <<current, saved, before_reset, handlers, storage>>
dispatchVars == <<event_filter, shortcuts>>
codeVars == <<now, host, brush_size, storeVars, handler, dispatchVars, last_result>>
vars == <<codeVars, calls, ncalls>>

-----------------------------------------------------------------------------
(* Bounds of the model *)

\* the clock reads StartTime at construction and stops at MaxTime
StartTime == 1
MaxTime == 16
\* the brush size ranges over 0 .. MaxBrush and is StartBrush at construction
MaxBrush == 3
StartBrush == 1
\* the clock of a held key stops at MaxHoldTime
MaxHoldTime == 91
\* the clock of the fair timers stops at MaxFairTime, and no press starts
\* after LastPress
MaxFairTime == 36
LastPress == 16
\* the clock of a key kept down after its burst stops at MaxKeptTime
MaxKeptTime == 186
MaxAccelTime == 31
\* the clock of a long burst stops at MaxBurstTime
MaxBurstTime == 801
\* the clock of the key events stops at MaxKeysTime
MaxKeysTime == 507
\* the clock of the taps stops at MaxTapTime
MaxTapTime == 60
\* the time between a release and the next press of the taps
TapGap == 50
\* the clock of the long presses stops at MaxLongTime
MaxLongTime == 10017
\* the clock of the stale check stops at MaxStaleTime
MaxStaleTime == 1003
\* a run of the settings store makes at most MaxCalls calls
MaxCalls == 4

-----------------------------------------------------------------------------
(* Program constants *)

MAX_PRESS_DURATION == 10000
STALE_STATE_TIMEOUT == 500
MAX_UNCHANGED_TRIGGERS == 15
\* timer_interval: the poll timer's period in ms
timer_interval == 5
\* abs(size_before - size_after) < 0.001, in units of half that epsilon
EPSILON == 2

Handlers == {"decrease", "increase"}

paired_handler(h) == IF h = "decrease" THEN "increase" ELSE "decrease"

NoTimer == -1
NoSnapshot == <<>>
NoSize == -1

HOLD == "hold"
SLOW_TAP == "slow_tap"

-----------------------------------------------------------------------------
(* SettingsManager: keys, defaults, conversions *)

BoolKeys == {"hold_enabled", "slow_tap_enabled", "multiplier_enabled"}
IntKeys == {"slow_burst_count", "multiplier_burst_count"}
FloatKeys == {"hold_detect_time", "slow_tap_threshold", "multiplier_threshold",
              "hold_base_interval", "hold_min_interval", "hold_exp_k", "hold_tau",
              "slow_burst_interval", "multiplier_burst_interval"}
Keys == BoolKeys \cup IntKeys \cup FloatKeys

DEFAULTS ==
    [hold_detect_time          |-> 200,
     slow_tap_threshold        |-> 100,
     multiplier_threshold      |-> 150,
     hold_enabled              |-> TRUE,
     slow_tap_enabled          |-> TRUE,
     multiplier_enabled        |-> TRUE,
     hold_base_interval        |-> 100,
     hold_min_interval         |-> 8,
     hold_exp_k                |-> 8000,
     hold_tau                  |-> 150,
     slow_burst_count          |-> 3000,
     slow_burst_interval       |-> 15,
     multiplier_burst_count    |-> 3000,
     multiplier_burst_interval |-> 1]

THRESHOLD_TOGGLE_MAP ==
    [hold_detect_time     |-> "hold_enabled",
     slow_tap_threshold   |-> "slow_tap_enabled",
     multiplier_threshold |-> "multiplier_enabled"]

ThresholdKeys == DOMAIN THRESHOLD_TOGGLE_MAP

\* int(x) of a number given in thousandths: truncation toward zero
IntOf(x) == IF x >= 0 THEN (x \div 1000) * 1000 ELSE -(((-x) \div 1000) * 1000)

\* the conversion of set(), by the type of the key's default; a flag is given as
\* a Boolean, every other value as a number
Coerce(key, value) ==
    IF key \in BoolKeys THEN value
    ELSE IF key \in IntKeys THEN IntOf(value)
    ELSE value

(* A string of host storage: a numeral (num, in thousandths; point says whether *)
(* it is written with a decimal point), one of the words float() reads as a     *)
(* float that is no number ("inf", "nan"), any other word, or no entry at all.  *)
Numeral(n, p) == [kind |-> "numeral", num |-> n, point |-> p, word |-> ""]
Word(w) == [kind |-> "word", num |-> 0, point |-> FALSE, word |-> w]
Special(w) == [kind |-> "special", num |-> 0, point |-> FALSE, word |-> w]
Absent == [kind |-> "absent", num |-> 0, point |-> FALSE, word |-> ""]

\* str(value) as _save_to_krita and readSetting's default write it
Str(key, value) ==
    IF key \in BoolKeys THEN Word(IF value THEN "True" ELSE "False")
    ELSE IF key \in IntKeys THEN Numeral(value, FALSE)
    ELSE Numeral(value, TRUE)

\* str.lower() on the words of the model
Lower(w) ==
    CASE w = "True" -> "true"
      [] w = "TRUE" -> "true"
      [] w = "False" -> "false"
      [] w = "Yes" -> "yes"
      [] OTHER -> w

\* value_str.lower() in ('true', '1', 'yes')
ParseBool(s) ==
    \/ s.kind = "word" /\ Lower(s.word) \in {"true", "yes"}
    \/ s.kind = "numeral" /\ s.num = 1000 /\ ~s.point

\* float(value_str) raises ValueError on anything that is no numeral and
\* neither "inf" nor "nan"
ParseFails(s) == s.kind \notin {"numeral", "special"}

\* int(float("nan")) raises ValueError
IntOfNan(s) == s.kind = "special" /\ s.word = "nan"

\* int(float("inf")) raises OverflowError
IntOverflows(s) == s.kind = "special" /\ s.word = "inf"

\* readSetting(group, key, str(default))
readSetting(store, key) ==
    IF store[key].kind = "absent" THEN Str(key, DEFAULTS[key]) ELSE store[key]

\* one key of _load_from_krita, when it does not raise: the except clause
\* catches ValueError and TypeError; a float that is no number is written by
\* its name
LoadKey(store, key) ==
    LET value_str == readSetting(store, key)
    IN  IF key \in BoolKeys THEN ParseBool(value_str)
        ELSE IF ParseFails(value_str) THEN DEFAULTS[key]
        ELSE IF key \in IntKeys
             THEN IF IntOfNan(value_str) THEN DEFAULTS[key] ELSE IntOf(value_str.num)
        ELSE IF value_str.kind = "special" THEN value_str.word
        ELSE value_str.num

\* the loop of _load_from_krita meets an exception its except clause does not
\* catch: the OverflowError of a count stored as "inf"
LoadRaises(app, store) ==
    /\ app # "down"
    /\ \E key \in IntKeys : IntOverflows(readSetting(store, key))

\* _current at the time of that exception: the keys before the first such
\* count, in the order of the DEFAULTS dictionary, are loaded
PartialLoad(store) ==
    LET KeyOrder ==
            <<"hold_detect_time", "slow_tap_threshold", "multiplier_threshold",
              "hold_enabled", "slow_tap_enabled", "multiplier_enabled",
              "hold_base_interval", "hold_min_interval", "hold_exp_k", "hold_tau",
              "slow_burst_count", "slow_burst_interval",
              "multiplier_burst_count", "multiplier_burst_interval">>
        raising == {i \in DOMAIN KeyOrder :
                       KeyOrder[i] \in IntKeys /\ IntOverflows(readSetting(store, KeyOrder[i]))}
        first == CHOOSE i \in raising : \A j \in raising : i <= j
    IN  [key \in Keys |->
            LET at == CHOOSE i \in DOMAIN KeyOrder : KeyOrder[i] = key
            IN  IF at < first THEN LoadKey(store, key) ELSE DEFAULTS[key]]

\* _load_from_krita: the settings read at construction
LoadFromKrita(app, store) ==
    IF app = "down" THEN DEFAULTS ELSE [key \in Keys |-> LoadKey(store, key)]

\* what _save_to_krita writes
SaveToKrita(settings) == [key \in Keys |-> Str(key, settings[key])]

EmptyStorage == [key \in Keys |-> Absent]

\* _apply_to_handler: the attributes a handler gets from the settings
ApplyToHandler(settings) ==
    [HOLD_DETECT_TIME          |-> settings.hold_detect_time,
     SLOW_TAP_THRESHOLD        |-> settings.slow_tap_threshold,
     MULTIPLIER_THRESHOLD      |-> settings.multiplier_threshold,
     HOLD_ENABLED              |-> settings.hold_enabled,
     SLOW_TAP_ENABLED          |-> settings.slow_tap_enabled,
     MULTIPLIER_ENABLED        |-> settings.multiplier_enabled,
     HOLD_BASE_INTERVAL        |-> settings.hold_base_interval,
     HOLD_MIN_INTERVAL         |-> settings.hold_min_interval,
     HOLD_EXP_K                |-> settings.hold_exp_k,
     HOLD_TAU                  |-> settings.hold_tau,
     SLOW_BURST_COUNT          |-> IntOf(settings.slow_burst_count) \div 1000,
     SLOW_BURST_INTERVAL       |-> settings.slow_burst_interval,
     MULTIPLIER_BURST_COUNT    |-> IntOf(settings.multiplier_burst_count) \div 1000,
     MULTIPLIER_BURST_INTERVAL |-> settings.multiplier_burst_interval]

\* the attributes AcceleratingKeyHandler.__init__ sets before any push
HandlerDefaults ==
    [HOLD_DETECT_TIME          |-> 35,
     SLOW_TAP_THRESHOLD        |-> 300,
     MULTIPLIER_THRESHOLD      |-> 150,
     HOLD_ENABLED              |-> TRUE,
     SLOW_TAP_ENABLED          |-> TRUE,
     MULTIPLIER_ENABLED        |-> TRUE,
     HOLD_BASE_INTERVAL        |-> 100,
     HOLD_MIN_INTERVAL         |-> 8,
     HOLD_EXP_K                |-> 8000,
     HOLD_TAU                  |-> 150,
     SLOW_BURST_COUNT          |-> 3,
     SLOW_BURST_INTERVAL       |-> 15,
     MULTIPLIER_BURST_COUNT    |-> 2,
     MULTIPLIER_BURST_INTERVAL |-> 10]

\* get_enabled_threshold_count
get_enabled_threshold_count(settings) ==
    Cardinality({k \in ThresholdKeys : settings[THRESHOLD_TOGGLE_MAP[k]]})

-----------------------------------------------------------------------------
(* SettingsManager: the operations.  A method is an operator from the store *)
(* before the call to the store after it; the push to the registered        *)
(* handlers is part of the action that makes the call.                      *)

Store ==
    [current |-> current, saved |-> saved, before_reset |-> before_reset,
     handlers |-> handlers, storage |-> storage]

\* the handlers of a push list
Registered(list) == {list[i] : i \in DOMAIN list}

\* set(key, value), up to the push
set(s, key, value) ==
    IF key \in Keys
    THEN [s EXCEPT !.current[key] = Coerce(key, value)]
    ELSE s

\* set_threshold_enabled(threshold_key, enabled), up to the push
set_threshold_enabled(s, threshold_key, enabled) ==
    IF threshold_key \in ThresholdKeys
    THEN [s EXCEPT !.current[THRESHOLD_TOGGLE_MAP[threshold_key]] = enabled]
    ELSE s

\* _save_to_krita returns False when Krita.instance() is None
save_to_krita_ok == host # "down"

\* a save() that keeps the reset-undo snapshot
save_keeping_snapshot(s) ==
    IF save_to_krita_ok
    THEN [s EXCEPT !.storage = SaveToKrita(s.current), !.saved = s.current]
    ELSE s

\* save()
save(s) ==
    IF save_to_krita_ok
    THEN [s EXCEPT !.storage = SaveToKrita(s.current),
                   !.saved = s.current,
                   !.before_reset = NoSnapshot]
    ELSE s

\* a cancel() that always goes back to the last save
cancel_to_saved(s) == [s EXCEPT !.current = s.saved, !.before_reset = NoSnapshot]

\* a cancel() that undoes the reset but keeps the snapshot
cancel_keeping_snapshot(s) ==
    IF s.before_reset # NoSnapshot
    THEN [s EXCEPT !.current = s.before_reset[1]]
    ELSE [s EXCEPT !.current = s.saved]

\* cancel(), up to the push
cancel(s) ==
    IF s.before_reset # NoSnapshot
    THEN [s EXCEPT !.current = s.before_reset[1], !.before_reset = NoSnapshot]
    ELSE [s EXCEPT !.current = s.saved]

\* a reset_to_defaults() that makes the defaults the last save as well
reset_to_defaults_as_saved(s) ==
    [s EXCEPT !.before_reset = <<s.current>>, !.current = DEFAULTS, !.saved = DEFAULTS]

\* reset_to_defaults(), up to the push
reset_to_defaults(s) ==
    [s EXCEPT !.before_reset = <<s.current>>, !.current = DEFAULTS]

\* register_handler(h), up to _apply_to_handler
register_handler(s, h) ==
    IF h \notin Registered(s.handlers)
    THEN [s EXCEPT !.handlers = Append(s.handlers, h)]
    ELSE s

\* unregister_handler(h): list.remove
unregister_handler(s, h) ==
    [s EXCEPT !.handlers = SelectSeq(s.handlers, LAMBDA x : x # h)]

\* an _update_handlers that stops after the first handler of the push list
update_handlers_first_only(s, hs) ==
    [h \in Handlers |->
        IF s.handlers # <<>> /\ h = s.handlers[1]
        THEN [hs[h] EXCEPT !.cfg = ApplyToHandler(s.current)]
        ELSE hs[h]]

\* an _update_handlers that gives the burst in flight the new burst interval
update_handlers_retiming_burst(s, hs) ==
    [h \in Handlers |->
        IF h \in Registered(s.handlers)
        THEN [hs[h] EXCEPT !.cfg = ApplyToHandler(s.current),
                           !.current_burst_interval =
                               IF hs[h].burst_active
                               THEN ApplyToHandler(s.current).SLOW_BURST_INTERVAL
                               ELSE @]
        ELSE hs[h]]

\* _update_handlers: _apply_to_handler on every handler of the push list
update_handlers(s, hs) ==
    [h \in Handlers |->
        IF h \in Registered(s.handlers)
        THEN [hs[h] EXCEPT !.cfg = ApplyToHandler(s.current)]
        ELSE hs[h]]

StoreBecomes(s) ==
    /\ current' = s.current
    /\ saved' = s.saved
    /\ before_reset' = s.before_reset
    /\ handlers' = s.handlers
    /\ storage' = s.storage

Set(key, value) ==
    LET s == set(Store, key, value)
    IN  /\ StoreBecomes(s)
        /\ handler' = IF key \in Keys THEN update_handlers(s, handler) ELSE handler
        /\ UNCHANGED <<dispatchVars, now, host, brush_size, last_result>>

SetThresholdEnabled(threshold_key, enabled) ==
    LET s == set_threshold_enabled(Store, threshold_key, enabled)
    IN  /\ StoreBecomes(s)
        /\ handler' = IF threshold_key \in ThresholdKeys
                      THEN update_handlers(s, handler) ELSE handler
        /\ UNCHANGED <<dispatchVars, now, host, brush_size, last_result>>

Save ==
    /\ StoreBecomes(save(Store))
    /\ last_result' = IF save_to_krita_ok THEN "True" ELSE "False"
    /\ UNCHANGED <<dispatchVars, now, host, brush_size, handler>>

Cancel ==
    LET s == cancel(Store)
    IN  /\ StoreBecomes(s)
        /\ handler' = update_handlers(s, handler)
        /\ UNCHANGED <<dispatchVars, now, host, brush_size, last_result>>

ResetToDefaults ==
    LET s == reset_to_defaults(Store)
    IN  /\ StoreBecomes(s)
        /\ handler' = update_handlers(s, handler)
        /\ UNCHANGED <<dispatchVars, now, host, brush_size, last_result>>

RegisterHandler(h) ==
    LET s == register_handler(Store, h)
    IN  /\ StoreBecomes(s)
        /\ handler' = IF h \notin Registered(handlers)
                      THEN [handler EXCEPT ![h].cfg = ApplyToHandler(s.current)]
                      ELSE handler
        /\ UNCHANGED <<dispatchVars, now, host, brush_size, last_result>>

UnregisterHandler(h) ==
    /\ StoreBecomes(unregister_handler(Store, h))
    /\ UNCHANGED <<dispatchVars, now, host, brush_size, handler, last_result>>

\* ThresholdSettingRow._on_checkbox_changed(state) of the docker, for the row of
\* threshold_key: unchecking the last enabled threshold is reverted in the UI
OnCheckboxChanged(threshold_key, is_checked) ==
    IF ~is_checked /\ get_enabled_threshold_count(current) <= 1
    THEN UNCHANGED codeVars
    ELSE SetThresholdEnabled(threshold_key, is_checked)

-----------------------------------------------------------------------------
(* AcceleratingKeyHandler.  A method is an operator from the world before the *)
(* call to the world after it; the world is the two handlers and the host's   *)
(* brush size, the only things a handler method writes.                       *)

\* raised: an exception of a host call is on its way up to the caller
World == [handler |-> handler, brush_size |-> brush_size, raised |-> FALSE]

Min(a, b) == IF a <= b THEN a ELSE b
Max(a, b) == IF a >= b THEN a ELSE b
Abs(a) == IF a >= 0 THEN a ELSE -a

\* the state __init__ leaves a handler in (last_brush_size, which the code
\* writes and never reads, is left out)
NewHandler ==
    [cfg                     |-> HandlerDefaults,
     is_pressed              |-> FALSE,
     press_start_time        |-> 0,
     last_trigger_time       |-> 0,
     last_release_time       |-> 0,
     trigger_count           |-> 0,
     current_mode            |-> SLOW_TAP,
     burst_remaining         |-> 0,
     burst_active            |-> FALSE,
     current_burst_interval  |-> 15,
     burst_timer             |-> NoTimer,
     timer                   |-> NoTimer,
     unchanged_trigger_count |-> 0,
     last_timer_activity     |-> 0]

\* the host's action "<h>_brush_size": one step up or down, kept within the
\* sizes the host allows
BrushStep == EPSILON
HostAction(h, size) ==
    IF h = "increase" THEN Min(size + BrushStep, MaxBrush) ELSE Max(size - BrushStep, 0)

\* _get_current_brush_size: None without an instance, a window or a view
get_current_brush_size(w) == IF host = "up" THEN w.brush_size ELSE NoSize

\* _trigger_action
trigger_action(w, h) ==
    [handler    |-> [w.handler EXCEPT ![h].trigger_count = @ + 1],
     brush_size |-> IF host = "up" THEN HostAction(h, w.brush_size) ELSE w.brush_size,
     raised     |-> host = "raises"]

\* a _cleanup_state that forgets burst_timer.stop()
cleanup_state_keeps_burst_timer(me) ==
    [me EXCEPT !.timer = NoTimer,
               !.burst_remaining = 0,
               !.burst_active = FALSE,
               !.unchanged_trigger_count = 0]

\* _cleanup_state
cleanup_state(me) ==
    [me EXCEPT !.timer = NoTimer,
               !.burst_timer = NoTimer,
               !.burst_remaining = 0,
               !.burst_active = FALSE,
               !.unchanged_trigger_count = 0]

\* a force_stop that stamps the release as end_press does
force_stop_stamping(w, h, reason) ==
    [w EXCEPT !.handler[h] =
        [cleanup_state(w.handler[h]) EXCEPT !.last_release_time = now,
                                            !.is_pressed = FALSE]]

\* force_stop(reason)
force_stop(w, h, reason) ==
    [w EXCEPT !.handler[h] =
        [cleanup_state(w.handler[h]) EXCEPT !.is_pressed = FALSE]]

\* an end_press without the guard on is_pressed
end_press_unguarded(w, h) ==
    [w EXCEPT !.handler[h] =
        [cleanup_state(w.handler[h]) EXCEPT !.last_release_time = now,
                                            !.is_pressed = FALSE]]

\* end_press
end_press(w, h) ==
    IF ~w.handler[h].is_pressed
    THEN w
    ELSE [w EXCEPT !.handler[h] =
            [cleanup_state(w.handler[h]) EXCEPT !.last_release_time = now,
                                                !.is_pressed = FALSE]]

\* a _finish_burst that resets the times and leaves the poll timer alone
finish_burst_not_arming(w, h) ==
    LET me == [w.handler[h] EXCEPT !.burst_active = FALSE, !.burst_remaining = 0]
    IN  [w EXCEPT !.handler[h] =
            IF me.is_pressed /\ me.cfg.HOLD_ENABLED
            THEN [me EXCEPT !.press_start_time = now,
                            !.last_trigger_time = now]
            ELSE me]

\* _finish_burst
finish_burst(w, h) ==
    LET me == [w.handler[h] EXCEPT !.burst_active = FALSE, !.burst_remaining = 0]
    IN  [w EXCEPT !.handler[h] =
            IF me.is_pressed /\ me.cfg.HOLD_ENABLED
            THEN [me EXCEPT !.press_start_time = now,
                            !.last_trigger_time = now,
                            !.timer = now + timer_interval]
            ELSE me]

\* a burst that schedules a step when none remains
after_burst_step_one_more(w, h) ==
    LET me == [w.handler[h] EXCEPT !.burst_remaining = @ - 1]
        w1 == [w EXCEPT !.handler[h] = me]
    IN  IF w.raised THEN w
        ELSE IF me.burst_remaining >= 0
        THEN [w1 EXCEPT !.handler[h].burst_timer = now + me.current_burst_interval]
        ELSE finish_burst(w1, h)

\* the tail of _start_burst and of _on_burst_timer: after a step has fired
after_burst_step(w, h) ==
    LET me == [w.handler[h] EXCEPT !.burst_remaining = @ - 1]
        w1 == [w EXCEPT !.handler[h] = me]
    IN  IF w.raised THEN w
        ELSE IF me.burst_remaining > 0
        THEN [w1 EXCEPT !.handler[h].burst_timer = now + me.current_burst_interval]
        ELSE finish_burst(w1, h)

\* _start_burst(burst_count, burst_interval)
start_burst(w, h, count, interval) ==
    LET w1 == [w EXCEPT !.handler[h].burst_remaining = count,
                        !.handler[h].burst_active = TRUE,
                        !.handler[h].current_burst_interval = interval]
    IN  after_burst_step(trigger_action(w1, h), h)

\* a _handle_slow_tap that adds the multiplier count instead of multiplying
handle_slow_tap_adding(w, h, multiplied) ==
    LET c  == w.handler[h].cfg
        w1 == [w EXCEPT !.handler[h].current_mode = SLOW_TAP]
    IN  IF multiplied
        THEN start_burst(w1, h, c.SLOW_BURST_COUNT + c.MULTIPLIER_BURST_COUNT,
                         c.MULTIPLIER_BURST_INTERVAL)
        ELSE start_burst(w1, h, c.SLOW_BURST_COUNT, c.SLOW_BURST_INTERVAL)

\* _handle_slow_tap(use_multiplier)
handle_slow_tap(w, h, multiplied) ==
    LET c  == w.handler[h].cfg
        w1 == [w EXCEPT !.handler[h].current_mode = SLOW_TAP]
    IN  IF multiplied
        THEN start_burst(w1, h, c.SLOW_BURST_COUNT * c.MULTIPLIER_BURST_COUNT,
                         c.MULTIPLIER_BURST_INTERVAL)
        ELSE start_burst(w1, h, c.SLOW_BURST_COUNT, c.SLOW_BURST_INTERVAL)

\* a classification that forgets the tap threshold once a release exists
classify_without_tap_threshold(me) ==
    LET time_since_release == now - me.last_release_time
    IN  /\ me.cfg.SLOW_TAP_ENABLED
        /\ me.cfg.MULTIPLIER_ENABLED
        /\ me.last_release_time > 0
        /\ time_since_release < me.cfg.MULTIPLIER_THRESHOLD

\* the classification of start_press: whether the multiplier applies
classify(me) ==
    LET time_since_release == now - me.last_release_time
    IN  IF me.cfg.SLOW_TAP_ENABLED
           /\ (me.last_release_time = 0 \/ time_since_release < me.cfg.SLOW_TAP_THRESHOLD)
        THEN /\ me.cfg.MULTIPLIER_ENABLED
             /\ me.last_release_time > 0
             /\ time_since_release < me.cfg.MULTIPLIER_THRESHOLD
        ELSE FALSE

\* a start_press without the mutual-exclusion step
stop_pair_skipped(w, h) == w

\* the paired handler is stopped first when it is pressed
stop_pair(w, h) ==
    IF w.handler[paired_handler(h)].is_pressed
    THEN force_stop(w, paired_handler(h), "paired handler starting")
    ELSE w

\* a start_press without the guard on is_pressed
start_press_unguarded(w, h) ==
    LET w1 == stop_pair(w, h)
        me == [w1.handler[h] EXCEPT
                   !.is_pressed = TRUE,
                   !.press_start_time = now,
                   !.last_trigger_time = now,
                   !.trigger_count = 0,
                   !.unchanged_trigger_count = 0,
                   !.last_timer_activity = now]
        w2 == handle_slow_tap([w1 EXCEPT !.handler[h] = me], h, classify(me))
        me2 == w2.handler[h]
    IN  IF w2.raised THEN w2
        ELSE IF me2.cfg.HOLD_ENABLED /\ ~me2.burst_active
        THEN [w2 EXCEPT !.handler[h].timer = now + timer_interval]
        ELSE w2

\* a start_press whose fallback fires a single trigger, as its comment says
start_press_single_trigger_fallback(w, h) ==
    IF w.handler[h].is_pressed
    THEN w
    ELSE LET w1 == stop_pair(w, h)
             me == [w1.handler[h] EXCEPT
                        !.is_pressed = TRUE,
                        !.press_start_time = now,
                        !.last_trigger_time = now,
                        !.trigger_count = 0,
                        !.unchanged_trigger_count = 0,
                        !.last_timer_activity = now]
             w2 == IF me.cfg.SLOW_TAP_ENABLED
                      /\ (me.last_release_time = 0
                          \/ now - me.last_release_time < me.cfg.SLOW_TAP_THRESHOLD)
                   THEN handle_slow_tap([w1 EXCEPT !.handler[h] = me], h, classify(me))
                   ELSE start_burst([w1 EXCEPT !.handler[h] = me,
                                               !.handler[h].current_mode = SLOW_TAP],
                                    h, 1, me.cfg.SLOW_BURST_INTERVAL)
             me2 == w2.handler[h]
         IN  IF w2.raised THEN w2
             ELSE IF me2.cfg.HOLD_ENABLED /\ ~me2.burst_active
             THEN [w2 EXCEPT !.handler[h].timer = now + timer_interval]
             ELSE w2

\* a start_press that arms the poll timer also when the burst is in flight
start_press_arming_in_burst(w, h) ==
    IF w.handler[h].is_pressed
    THEN w
    ELSE LET w1 == stop_pair(w, h)
             me == [w1.handler[h] EXCEPT
                        !.is_pressed = TRUE,
                        !.press_start_time = now,
                        !.last_trigger_time = now,
                        !.trigger_count = 0,
                        !.unchanged_trigger_count = 0,
                        !.last_timer_activity = now]
             w2 == handle_slow_tap([w1 EXCEPT !.handler[h] = me], h, classify(me))
             me2 == w2.handler[h]
         IN  IF w2.raised THEN w2
             ELSE IF me2.cfg.HOLD_ENABLED
             THEN [w2 EXCEPT !.handler[h].timer = now + timer_interval]
             ELSE w2

\* start_press
start_press(w, h) ==
    IF w.handler[h].is_pressed
    THEN w
    ELSE LET w1 == stop_pair(w, h)
             me == [w1.handler[h] EXCEPT
                        !.is_pressed = TRUE,
                        !.press_start_time = now,
                        !.last_trigger_time = now,
                        !.trigger_count = 0,
                        !.unchanged_trigger_count = 0,
                        !.last_timer_activity = now]
             w2 == handle_slow_tap([w1 EXCEPT !.handler[h] = me], h, classify(me))
             me2 == w2.handler[h]
         IN  IF w2.raised THEN w2
             ELSE IF me2.cfg.HOLD_ENABLED /\ ~me2.burst_active
             THEN [w2 EXCEPT !.handler[h].timer = now + timer_interval]
             ELSE w2

\* exp(-x) in thousandths, x in thousandths: the values at x = 0, 1/4, 2/4, ...
\* joined by straight lines; 0 from x = 7 on
ExpTable ==
    <<1000, 778, 606, 472, 367, 286, 223, 173, 135, 105, 82, 63, 49, 38, 30, 23,
      18, 14, 11, 8, 6, 5, 4, 3, 2, 1, 1, 1, 0, 0>>

ExpNeg(x) ==
    LET i == x \div 250
    IN  IF i + 2 > Len(ExpTable) THEN 0
        ELSE ExpTable[i + 1] - ((ExpTable[i + 1] - ExpTable[i + 2]) * (x % 250)) \div 250

\* a _get_current_interval whose hold interval has no floor
get_current_interval_without_floor(me, elapsed_time) ==
    IF me.current_mode = HOLD
    THEN LET t == Max(0, elapsed_time - me.cfg.HOLD_DETECT_TIME)
             decay == ExpNeg((me.cfg.HOLD_EXP_K * t) \div me.cfg.HOLD_TAU)
         IN  (me.cfg.HOLD_BASE_INTERVAL * decay) \div 1000
    ELSE Max(30, 300000 \div (2000 + 3 * elapsed_time))

\* _get_current_interval(elapsed_time), in ms
get_current_interval(me, elapsed_time) ==
    IF me.current_mode = HOLD
    THEN LET t == Max(0, elapsed_time - me.cfg.HOLD_DETECT_TIME)
             decay == ExpNeg((me.cfg.HOLD_EXP_K * t) \div me.cfg.HOLD_TAU)
             interval == (me.cfg.HOLD_BASE_INTERVAL * decay) \div 1000
         IN  Max(me.cfg.HOLD_MIN_INTERVAL, interval)
    ELSE \* 0.15 / (1.0 + 1.5 * t), at least 0.03
         Max(30, 300000 \div (2000 + 3 * elapsed_time))

\* a safety check that stops one unchanged trigger late (> for >=)
trigger_action_with_late_safety_check(w, h) ==
    LET size_before == get_current_brush_size(w)
        w1 == trigger_action(w, h)
        size_after == get_current_brush_size(w1)
    IN  IF w1.raised THEN w1
        ELSE IF size_before # NoSize /\ size_after # NoSize
        THEN IF Abs(size_before - size_after) < EPSILON
             THEN LET w2 == [w1 EXCEPT !.handler[h].unchanged_trigger_count = @ + 1]
                  IN  IF w2.handler[h].unchanged_trigger_count > MAX_UNCHANGED_TRIGGERS
                      THEN force_stop(w2, h, "brush size not changing")
                      ELSE w2
             ELSE [w1 EXCEPT !.handler[h].unchanged_trigger_count = 0]
        ELSE w1

\* _trigger_action_with_safety_check
trigger_action_with_safety_check(w, h) ==
    LET size_before == get_current_brush_size(w)
        w1 == trigger_action(w, h)
        size_after == get_current_brush_size(w1)
        me == w1.handler[h]
    IN  IF w1.raised THEN w1
        ELSE IF size_before # NoSize /\ size_after # NoSize
        THEN IF Abs(size_before - size_after) < EPSILON
             THEN LET w2 == [w1 EXCEPT !.handler[h].unchanged_trigger_count = @ + 1]
                  IN  IF w2.handler[h].unchanged_trigger_count >= MAX_UNCHANGED_TRIGGERS
                      THEN force_stop(w2, h, "brush size not changing")
                      ELSE w2
             ELSE [w1 EXCEPT !.handler[h].unchanged_trigger_count = 0]
        ELSE w1

\* an _on_burst_timer whose step goes through the safety check
on_burst_timer_with_safety_check(w, h) ==
    LET w0 == [w EXCEPT !.handler[h].burst_timer = NoTimer]
        me == w0.handler[h]
    IN  IF me.burst_remaining > 0 /\ me.is_pressed
        THEN LET w1 == trigger_action_with_safety_check(w0, h)
             IN  IF w1.handler[h].is_pressed THEN after_burst_step(w1, h) ELSE w1
        ELSE finish_burst(w0, h)

\* _on_burst_timer: the single-shot timer has fired
on_burst_timer(w, h) ==
    LET w0 == [w EXCEPT !.handler[h].burst_timer = NoTimer]
        me == w0.handler[h]
    IN  IF me.burst_remaining > 0 /\ me.is_pressed
        THEN after_burst_step(trigger_action(w0, h), h)
        ELSE finish_burst(w0, h)

\* the promotion test of _on_timer
promotes(me, elapsed_since_start) ==
    /\ me.cfg.HOLD_ENABLED
    /\ elapsed_since_start >= me.cfg.HOLD_DETECT_TIME
    /\ me.current_mode # HOLD
    /\ ~me.burst_active

\* _on_timer
on_timer(w, h) ==
    LET me == w.handler[h]
        current_time == now
        elapsed_since_start == current_time - me.press_start_time
        elapsed_since_trigger == current_time - me.last_trigger_time
    IN  IF ~me.is_pressed
        THEN [w EXCEPT !.handler[h].timer = NoTimer]
        ELSE IF elapsed_since_start > MAX_PRESS_DURATION
        THEN force_stop(w, h, "max press duration exceeded")
        ELSE LET me1 == [me EXCEPT !.last_timer_activity = current_time]
                 me2 == IF promotes(me1, elapsed_since_start)
                        THEN [me1 EXCEPT !.current_mode = HOLD]
                        ELSE me1
                 w2 == [w EXCEPT !.handler[h] = me2]
             IN  IF me2.current_mode # HOLD
                 THEN w2
                 ELSE IF elapsed_since_trigger >= get_current_interval(me2, elapsed_since_start)
                 THEN LET w3 == trigger_action_with_safety_check(w2, h)
                      IN  IF w3.raised THEN w3
                          ELSE [w3 EXCEPT !.handler[h].last_trigger_time = current_time]
                 ELSE w2

\* an is_stale_state that reports the handler stale at the timeout already
is_stale_state_at_timeout(me) ==
    IF ~me.is_pressed THEN FALSE
    ELSE now - me.last_timer_activity >= STALE_STATE_TIMEOUT

\* is_stale_state
is_stale_state(me) ==
    IF ~me.is_pressed THEN FALSE
    ELSE now - me.last_timer_activity > STALE_STATE_TIMEOUT

\* a stale fix that releases the key instead of force-stopping it
check_and_fix_stale_state_by_release(w, h) ==
    IF is_stale_state(w.handler[h]) THEN end_press(w, h) ELSE w

\* check_and_fix_stale_state: the world after it (what it returns is
\* is_stale_state before it)
check_and_fix_stale_state(w, h) ==
    IF is_stale_state(w.handler[h])
    THEN force_stop(w, h, "stale state detected")
    ELSE w

-----------------------------------------------------------------------------
(* BrushSizeKeyEventFilter: the dispatcher of the window's key events *)

\* a key combination is <<key, modifiers>>, the key with the modifier flags
\* or-ed into it; NoCombo is None
NoCombo == <<>>
\* the keys that are modifiers themselves
ModifierKeys == {"Shift", "Control", "Alt", "Meta"}
\* the modifier flags _get_key_combo copies into the combination
ComboModifiers == {"Shift", "Control", "Alt", "Meta"}

\* no shortcut is assigned to either action when createActions has made them
NoShortcuts == [h \in Handlers |-> {}]

\* BrushSizeKeyEventFilter.__init__
NewFilter ==
    [decrease_keys    |-> {},
     increase_keys    |-> {},
     pressed_keys     |-> {},
     shortcuts_loaded |-> FALSE]

\* _update_shortcut_keys: the filter with both key sets read from the host's
\* actions; without the host nothing is read
update_shortcut_keys(f) ==
    IF host # "up"
    THEN f
    ELSE [f EXCEPT !.decrease_keys    = shortcuts["decrease"],
                   !.increase_keys    = shortcuts["increase"],
                   !.shortcuts_loaded = shortcuts["decrease"] \cup shortcuts["increase"] # {}]

get_key_combo(key_event) ==
    IF key_event.key \in ModifierKeys
    THEN NoCombo
    ELSE <<key_event.key, key_event.modifiers \cap ComboModifiers>>

key_in_set_ignoring_modifiers(key, key_set) ==
    \E combo \in key_set : combo[1] = key

check_stale_handlers(w) ==
    check_and_fix_stale_state(check_and_fix_stale_state(w, "decrease"), "increase")

\* a _release_all_keys that goes by pressed_keys instead of the handlers' state
release_all_keys_by_pressed_keys(f, w) ==
    LET w1 == IF f.pressed_keys \cap f.decrease_keys # {} THEN end_press(w, "decrease") ELSE w
        w2 == IF f.pressed_keys \cap f.increase_keys # {} THEN end_press(w1, "increase") ELSE w1
    IN  [filter |-> [f EXCEPT !.pressed_keys = {}], world |-> w2, result |-> FALSE]

\* _release_all_keys: the filter and the world after it
release_all_keys(f, w) ==
    LET w1 == IF w.handler["decrease"].is_pressed THEN end_press(w, "decrease") ELSE w
        w2 == IF w1.handler["increase"].is_pressed THEN end_press(w1, "increase") ELSE w1
    IN  [filter |-> [f EXCEPT !.pressed_keys = {}], world |-> w2, result |-> FALSE]

\* the KeyPress branch of eventFilter with the auto-repeat test left out
key_press_forwarding_auto_repeat(f, w, key_event) ==
    LET key_combo == get_key_combo(key_event)
    IN  IF key_combo = NoCombo
        THEN [filter |-> f, world |-> w, result |-> FALSE]
        ELSE IF key_combo \in f.decrease_keys /\ key_combo \notin f.pressed_keys
        THEN [filter |-> [f EXCEPT !.pressed_keys = @ \cup {key_combo}],
              world  |-> start_press(w, "decrease"),
              result |-> TRUE]
        ELSE IF key_combo \in f.increase_keys /\ key_combo \notin f.pressed_keys
        THEN [filter |-> [f EXCEPT !.pressed_keys = @ \cup {key_combo}],
              world  |-> start_press(w, "increase"),
              result |-> TRUE]
        ELSE [filter |-> f, world |-> w, result |-> FALSE]

\* the KeyPress branch of eventFilter
key_press(f, w, key_event) ==
    LET key_combo == get_key_combo(key_event)
    IN  IF key_combo = NoCombo
        THEN [filter |-> f, world |-> w, result |-> FALSE]
        ELSE IF key_event.isAutoRepeat
        THEN [filter |-> f, world |-> w,
              result |-> key_combo \in f.decrease_keys \/ key_combo \in f.increase_keys]
        ELSE IF key_combo \in f.decrease_keys /\ key_combo \notin f.pressed_keys
        THEN [filter |-> [f EXCEPT !.pressed_keys = @ \cup {key_combo}],
              world  |-> start_press(w, "decrease"),
              result |-> TRUE]
        ELSE IF key_combo \in f.increase_keys /\ key_combo \notin f.pressed_keys
        THEN [filter |-> [f EXCEPT !.pressed_keys = @ \cup {key_combo}],
              world  |-> start_press(w, "increase"),
              result |-> TRUE]
        ELSE [filter |-> f, world |-> w, result |-> FALSE]

\* a KeyRelease branch that matches the exact key combination only
key_release_exact_only(f, w, key_event) ==
    LET key_combo == get_key_combo(key_event)
        released(h) == [filter |-> [f EXCEPT !.pressed_keys = @ \ {key_combo}],
                        world  |-> end_press(w, h),
                        result |-> TRUE]
    IN  IF key_event.isAutoRepeat \/ key_combo = NoCombo
        THEN [filter |-> f, world |-> w, result |-> FALSE]
        ELSE IF key_combo \in f.decrease_keys /\ w.handler["decrease"].is_pressed
        THEN released("decrease")
        ELSE IF key_combo \in f.increase_keys /\ w.handler["increase"].is_pressed
        THEN released("increase")
        ELSE [filter |-> f, world |-> w, result |-> FALSE]

\* the KeyRelease branch of eventFilter
key_release(f, w, key_event) ==
    LET key_combo == get_key_combo(key_event)
        key_only == key_event.key
        released(h) == [filter |-> [f EXCEPT !.pressed_keys = @ \ {key_combo}],
                        world  |-> end_press(w, h),
                        result |-> TRUE]
    IN  IF key_event.isAutoRepeat \/ key_combo = NoCombo
        THEN [filter |-> f, world |-> w, result |-> FALSE]
        ELSE IF key_combo \in f.decrease_keys /\ w.handler["decrease"].is_pressed
        THEN released("decrease")
        ELSE IF key_combo \in f.increase_keys /\ w.handler["increase"].is_pressed
        THEN released("increase")
        ELSE IF /\ key_in_set_ignoring_modifiers(key_only, f.decrease_keys)
                /\ w.handler["decrease"].is_pressed
        THEN released("decrease")
        ELSE IF /\ key_in_set_ignoring_modifiers(key_only, f.increase_keys)
                /\ w.handler["increase"].is_pressed
        THEN released("increase")
        ELSE [filter |-> f, world |-> w, result |-> FALSE]

\* eventFilter: the filter and the world after the event, and whether the
\* event is consumed
eventFilter(f, w, event) ==
    LET f1 == IF ~f.shortcuts_loaded THEN update_shortcut_keys(f) ELSE f
        w1 == check_stale_handlers(w)
    IN  CASE event.type = "KeyPress"         -> key_press(f1, w1, event)
          [] event.type = "KeyRelease"       -> key_release(f1, w1, event)
          [] event.type = "FocusOut"         -> release_all_keys(f1, w1)
          [] event.type = "WindowDeactivate" -> release_all_keys(f1, w1)
          [] OTHER                           -> [filter |-> f1, world |-> w1, result |-> FALSE]

\* an _on_action_triggered that starts the press without the stale check
on_action_triggered_unchecked(w, h) ==
    IF ~w.handler[h].is_pressed THEN start_press(w, h) ELSE w

\* _on_action_triggered: the world after the action's triggered signal
on_action_triggered(w, h) ==
    LET w1 == check_and_fix_stale_state(w, h)
    IN  IF ~w1.handler[h].is_pressed THEN start_press(w1, h) ELSE w1

-----------------------------------------------------------------------------
(* The calls and callbacks as actions *)

Becomes(w) ==
    /\ handler' = w.handler
    /\ brush_size' = w.brush_size

StartPress(h) ==
    /\ Becomes(start_press(World, h))
    /\ UNCHANGED <<dispatchVars, now, host, storeVars, last_result>>

EndPress(h) ==
    /\ Becomes(end_press(World, h))
    /\ UNCHANGED <<dispatchVars, now, host, storeVars, last_result>>

ForceStop(h) ==
    /\ Becomes(force_stop(World, h, "caller"))
    /\ UNCHANGED <<dispatchVars, now, host, storeVars, last_result>>

CheckAndFixStaleState(h) ==
    /\ Becomes(check_and_fix_stale_state(World, h))
    /\ last_result' = IF is_stale_state(handler[h]) THEN "True" ELSE "False"
    /\ UNCHANGED <<dispatchVars, now, host, storeVars>>

\* the burst timer of h fires: not before it is due
BurstTimeout(h) ==
    /\ handler[h].burst_timer # NoTimer
    /\ now >= handler[h].burst_timer
    /\ Becomes(on_burst_timer(World, h))
    /\ UNCHANGED <<dispatchVars, now, host, storeVars, last_result>>

\* the poll timer of h fires, and is due again timer_interval later unless the
\* callback stopped it
PollTimeout(h) ==
    /\ handler[h].timer # NoTimer
    /\ now >= handler[h].timer
    /\ LET w == on_timer(World, h)
       IN  Becomes(IF w.handler[h].timer = NoTimer
                   THEN w
                   ELSE [w EXCEPT !.handler[h].timer = now + timer_interval])
    /\ UNCHANGED <<dispatchVars, now, host, storeVars, last_result>>

\* time passes between two callbacks
Advance(d) ==
    /\ now + d <= MaxTime
    /\ now' = now + d
    /\ UNCHANGED <<dispatchVars, host, brush_size, storeVars, handler, last_result>>

\* the host comes and goes: Krita.instance(), its active window and view
HostChanges(h) ==
    /\ h # host
    /\ host' = h
    /\ UNCHANGED <<dispatchVars, now, brush_size, storeVars, handler, last_result>>

\* the user picks another brush size in the host
BrushChanges(size) ==
    /\ size # brush_size
    /\ brush_size' = size
    /\ UNCHANGED <<dispatchVars, now, host, storeVars, handler, last_result>>

\* the window's filter sees an event
EventFilter(event) ==
    LET r == eventFilter(event_filter, World, event)
    IN  /\ Becomes(r.world)
        /\ event_filter' = r.filter
        /\ last_result' = IF r.result THEN "True" ELSE "False"
        /\ UNCHANGED <<shortcuts, now, host, storeVars>>

\* the host's shortcut system fires the action of h
OnActionTriggered(h) ==
    /\ Becomes(on_action_triggered(World, h))
    /\ UNCHANGED <<dispatchVars, now, host, storeVars, last_result>>

\* the user assigns key combinations to the action of h in the host
AssignShortcuts(h, key_set) ==
    /\ shortcuts[h] # key_set
    /\ shortcuts' = [shortcuts EXCEPT ![h] = key_set]
    /\ UNCHANGED <<event_filter, now, host, brush_size, storeVars, handler, last_result>>

-----------------------------------------------------------------------------
(* Construction *)

\* settings with short times, as a user may have saved them: the multiplier
\* threshold below the tap threshold
FastSettings ==
    [hold_detect_time          |-> 5,
     slow_tap_threshold        |-> 15,
     multiplier_threshold      |-> 10,
     hold_enabled              |-> TRUE,
     slow_tap_enabled          |-> TRUE,
     multiplier_enabled        |-> TRUE,
     hold_base_interval        |-> 5,
     hold_min_interval         |-> 5,
     hold_exp_k                |-> 8000,
     hold_tau                  |-> 50,
     slow_burst_count          |-> 3000,
     slow_burst_interval       |-> 5,
     multiplier_burst_count    |-> 2000,
     multiplier_burst_interval |-> 1]

\* the same with the multiplier threshold above the tap threshold, as in DEFAULTS
WideSettings ==
    [FastSettings EXCEPT !.slow_tap_threshold = 10, !.multiplier_threshold = 15]

\* SettingsManager.__init__, then createActions: both handlers are made,
\* registered (decrease first) and paired
Constructed(store) ==
    /\ now = StartTime
    /\ host = "up"
    /\ brush_size = StartBrush
    /\ storage = store
    /\ current = LoadFromKrita(host, store)
    /\ saved = current
    /\ before_reset = NoSnapshot
    /\ handlers = <<"decrease", "increase">>
    /\ handler = [h \in Handlers |-> [NewHandler EXCEPT !.cfg = ApplyToHandler(current)]]
    /\ event_filter = NewFilter
    /\ shortcuts = NoShortcuts
    /\ last_result = "None"
    /\ calls = <<>>
    /\ ncalls = 0

Init == \E settings \in {FastSettings, WideSettings} : Constructed(SaveToKrita(settings))

\* a step that is not a noted call on the settings store
NoCall == UNCHANGED <<calls, ncalls>>

Next ==
    \/ \E h \in Handlers : StartPress(h) /\ NoCall
    \/ \E h \in Handlers : EndPress(h) /\ NoCall
    \/ \E h \in Handlers : ForceStop(h) /\ NoCall
    \/ \E h \in Handlers : BurstTimeout(h) /\ NoCall
    \/ \E h \in Handlers : PollTimeout(h) /\ NoCall
    \/ Advance(timer_interval) /\ NoCall
    \/ \E k \in ThresholdKeys, b \in BOOLEAN : SetThresholdEnabled(k, b) /\ NoCall

Spec == Init /\ [][Next]_vars

-----------------------------------------------------------------------------
(* A key held down: SpecHold *)

\* settings of a user who wants two presses per tap, no multiplier and hold
\* detection after 5 ms
HoldSettings ==
    [FastSettings EXCEPT !.slow_burst_count = 2000, !.multiplier_enabled = FALSE]

InitHold == Constructed(SaveToKrita(HoldSettings))

\* time passes, up to MaxHoldTime
AdvanceHold(d) ==
    /\ now + d <= MaxHoldTime
    /\ now' = now + d
    /\ UNCHANGED <<dispatchVars, host, brush_size, storeVars, handler, last_result>>

\* one key at a time is pressed and held until the handler stops itself, while
\* the user may also change the brush size in the host
NextHold ==
    \/ \E h \in Handlers :
          (\A g \in Handlers : ~handler[g].is_pressed) /\ StartPress(h) /\ NoCall
    \/ \E h \in Handlers : BurstTimeout(h) /\ NoCall
    \/ \E h \in Handlers : PollTimeout(h) /\ NoCall
    \/ AdvanceHold(timer_interval) /\ NoCall
    \/ \E size \in 0 .. MaxBrush : BrushChanges(size) /\ NoCall

SpecHold == InitHold /\ [][NextHold]_vars

-----------------------------------------------------------------------------
(* A key held down while the repeat accelerates: SpecAccel *)

\* settings of a user who wants one press per tap and a hold that starts at
\* 20 ms between presses and speeds up to 5 ms, quickly or less quickly
AccelSettings(tau) ==
    [FastSettings EXCEPT !.slow_burst_count = 1000,
                         !.hold_base_interval = 20,
                         !.hold_tau = tau]

InitAccel == \E tau \in {50, 100} : Constructed(SaveToKrita(AccelSettings(tau)))

\* time passes, up to MaxAccelTime
AdvanceAccel(d) ==
    /\ now + d <= MaxAccelTime
    /\ now' = now + d
    /\ UNCHANGED <<dispatchVars, host, brush_size, storeVars, handler, last_result>>

\* one key at a time is pressed, held and released
NextAccel ==
    \/ \E h \in Handlers :
          (\A g \in Handlers : ~handler[g].is_pressed) /\ StartPress(h) /\ NoCall
    \/ \E h \in Handlers : EndPress(h) /\ NoCall
    \/ \E h \in Handlers : PollTimeout(h) /\ NoCall
    \/ AdvanceAccel(timer_interval) /\ NoCall

SpecAccel == InitAccel /\ [][NextAccel]_vars

-----------------------------------------------------------------------------
(* Taps with the default settings: SpecTap *)

InitTap == Constructed(EmptyStorage)

\* time passes, up to MaxTapTime
AdvanceTap(d) ==
    /\ now + d <= MaxTapTime
    /\ now' = now + d
    /\ UNCHANGED <<dispatchVars, host, brush_size, storeVars, handler, last_result>>

\* the keys are tapped in a rhythm, a key going down every TapGap; the clock is
\* looked at when the burst timer in flight is due, and TapGap later when no
\* burst is in flight
NextTap ==
    \/ \E h \in Handlers :
          (now - StartTime) % TapGap = 0 /\ StartPress(h) /\ NoCall
    \/ \E h \in Handlers : EndPress(h) /\ NoCall
    \/ \E h \in Handlers : BurstTimeout(h) /\ NoCall
    \/ \E h \in Handlers : PollTimeout(h) /\ NoCall
    \/ \E h \in Handlers :
          /\ handler[h].burst_timer > now
          /\ AdvanceTap(handler[h].burst_timer - now)
          /\ NoCall
    \/ (\A h \in Handlers : ~handler[h].burst_active) /\ AdvanceTap(TapGap) /\ NoCall

SpecTap == InitTap /\ [][NextTap]_vars

-----------------------------------------------------------------------------
(* Presses that last as long as MAX_PRESS_DURATION: SpecLong *)

\* settings of a user who wants one press per tap
SingleTapSettings == [FastSettings EXCEPT !.slow_burst_count = 1000]

InitLong ==
    \E settings \in {FastSettings, SingleTapSettings} : Constructed(SaveToKrita(settings))

\* time passes, up to MaxLongTime
AdvanceLong(d) ==
    /\ now + d <= MaxLongTime
    /\ now' = now + d
    /\ UNCHANGED <<dispatchVars, host, brush_size, storeVars, handler, last_result>>

\* the clock is looked at every timer_interval at first, and once
\* MAX_PRESS_DURATION later
NextLong ==
    \/ \E h \in Handlers : StartPress(h) /\ NoCall
    \/ \E h \in Handlers : EndPress(h) /\ NoCall
    \/ \E h \in Handlers : BurstTimeout(h) /\ NoCall
    \/ \E h \in Handlers : PollTimeout(h) /\ NoCall
    \/ Advance(timer_interval) /\ NoCall
    \/ AdvanceLong(MAX_PRESS_DURATION) /\ NoCall
    \/ \E b \in BOOLEAN : SetThresholdEnabled("hold_detect_time", b) /\ NoCall

SpecLong == InitLong /\ [][NextLong]_vars

-----------------------------------------------------------------------------
(* Long gaps between callbacks, and the stale check: SpecStale *)

InitStale ==
    \E settings \in {FastSettings, SingleTapSettings} : Constructed(SaveToKrita(settings))

\* time passes, up to MaxStaleTime
AdvanceStale(d) ==
    /\ now + d <= MaxStaleTime
    /\ now' = now + d
    /\ UNCHANGED <<dispatchVars, host, brush_size, storeVars, handler, last_result>>

\* the event loop is away for the stale timeout, or for 1 ms more
NextStale ==
    \/ \E h \in Handlers : StartPress(h) /\ NoCall
    \/ \E h \in Handlers : EndPress(h) /\ NoCall
    \/ \E h \in Handlers : BurstTimeout(h) /\ NoCall
    \/ \E h \in Handlers : PollTimeout(h) /\ NoCall
    \/ \E h \in Handlers : CheckAndFixStaleState(h) /\ NoCall
    \/ \E d \in {STALE_STATE_TIMEOUT, STALE_STATE_TIMEOUT + 1} : AdvanceStale(d) /\ NoCall
    \/ \E b \in BOOLEAN : SetThresholdEnabled("hold_detect_time", b) /\ NoCall

SpecStale == InitStale /\ [][NextStale]_vars

-----------------------------------------------------------------------------
(* Key events through the dispatcher: SpecKeys *)

\* the user has one press per tap, with hold detection or without it
InitKeys ==
    \E settings \in {SingleTapSettings, [SingleTapSettings EXCEPT !.hold_enabled = FALSE]} :
        Constructed(SaveToKrita(settings))

\* the shortcut the user gives each action: a key alone to decrease, a key
\* with Shift to increase
ShortcutKey(h) == IF h = "decrease" THEN "BracketLeft" ELSE "BracketRight"
ShortcutChoices(h) ==
    {{<<ShortcutKey(h), IF h = "decrease" THEN {} ELSE {"Shift"}>>}}

\* the events the window gets: the two keys going down or up, alone, with
\* Shift or with the keypad flag, and the Shift key, each repeated by the host
\* or not; focus loss, deactivation, and an event of another type
KeyEvents ==
    [type        : {"KeyPress", "KeyRelease"},
     key         : {"BracketLeft", "BracketRight"},
     modifiers   : {{}, {"Shift"}, {"Keypad"}},
     isAutoRepeat : BOOLEAN]
    \cup
    [type        : {"KeyPress", "KeyRelease"},
     key         : {"Shift"},
     modifiers   : {{"Shift"}},
     isAutoRepeat : BOOLEAN]
WindowEvents ==
    [type        : {"FocusOut", "WindowDeactivate", "Paint"},
     key         : {"None"},
     modifiers   : {{}},
     isAutoRepeat : {FALSE}]
Events == KeyEvents \cup WindowEvents

\* time passes, up to MaxKeysTime: one period of the poll timer after the
\* construction and after each absence of the event loop
AdvanceKeys(d) ==
    /\ now + d <= MaxKeysTime
    /\ d = timer_interval => (now - StartTime) % (STALE_STATE_TIMEOUT + 1) = 0
    /\ now' = now + d
    /\ UNCHANGED <<dispatchVars, host, brush_size, storeVars, handler, last_result>>

\* the event loop is away for 1 ms more than the stale timeout
NextKeys ==
    \/ \E event \in Events : EventFilter(event) /\ NoCall
    \/ \E h \in Handlers : OnActionTriggered(h) /\ NoCall
    \/ \E h \in Handlers : \E key_set \in ShortcutChoices(h) :
           shortcuts[h] = {} /\ AssignShortcuts(h, key_set) /\ NoCall
    \/ \E h \in Handlers : BurstTimeout(h) /\ NoCall
    \/ \E h \in Handlers : PollTimeout(h) /\ NoCall
    \/ AdvanceKeys(timer_interval) /\ NoCall
    \/ AdvanceKeys(STALE_STATE_TIMEOUT + 1) /\ NoCall

SpecKeys == InitKeys /\ [][NextKeys]_vars

-----------------------------------------------------------------------------
(* The host comes, goes and fails under the handlers: SpecHost *)

InitHost == Constructed(SaveToKrita(FastSettings))

\* what Krita can be to a call of the handlers
Hosts == {"up", "noview", "down", "raises"}

NextHost ==
    \/ \E h \in Handlers : StartPress(h) /\ NoCall
    \/ \E h \in Handlers : EndPress(h) /\ NoCall
    \/ \E h \in Handlers : BurstTimeout(h) /\ NoCall
    \/ \E h \in Handlers : PollTimeout(h) /\ NoCall
    \/ Advance(timer_interval) /\ NoCall
    \/ \E h \in Hosts : HostChanges(h) /\ NoCall

SpecHost == InitHost /\ [][NextHost]_vars

-----------------------------------------------------------------------------
(* Timers that fire when they are due, hold enabled throughout: SpecFair *)

InitFair ==
    \E settings \in {FastSettings, SingleTapSettings} : Constructed(SaveToKrita(settings))

\* time passes, up to a last time, when no timer is due
AdvanceFair(d, last) ==
    /\ now + d <= last
    /\ \A h \in Handlers : handler[h].burst_timer <= now => handler[h].burst_timer = NoTimer
    /\ \A h \in Handlers : handler[h].timer <= now => handler[h].timer = NoTimer
    /\ now' = now + d
    /\ UNCHANGED <<dispatchVars, host, brush_size, storeVars, handler, last_result>>

BurstTimeouts == \E h \in Handlers : BurstTimeout(h) /\ NoCall
PollTimeouts == \E h \in Handlers : PollTimeout(h) /\ NoCall
TimePasses == AdvanceFair(timer_interval, MaxFairTime) /\ NoCall

NextFair ==
    \/ \E h \in Handlers : now <= LastPress /\ StartPress(h) /\ NoCall
    \/ BurstTimeouts
    \/ PollTimeouts
    \/ TimePasses
    \/ \E b \in BOOLEAN : SetThresholdEnabled("slow_tap_threshold", b) /\ NoCall

\* the event loop runs every timer that is due, and time goes on
SpecFair ==
    /\ InitFair
    /\ [][NextFair]_vars
    /\ WF_vars(BurstTimeouts)
    /\ WF_vars(PollTimeouts)
    /\ WF_vars(TimePasses)

-----------------------------------------------------------------------------
(* A key kept down in Tap state, timers firing when they are due: SpecKept *)

InitKept == Constructed(SaveToKrita(FastSettings))

NextKept ==
    \/ \E h \in Handlers : now <= LastPress /\ StartPress(h) /\ NoCall
    \/ BurstTimeouts
    \/ PollTimeouts
    \/ AdvanceFair(timer_interval, MaxKeptTime) /\ NoCall
    \/ \E b \in BOOLEAN : SetThresholdEnabled("hold_detect_time", b) /\ NoCall

SpecKept == InitKept /\ [][NextKept]_vars

-----------------------------------------------------------------------------
(* A burst that lasts longer than the stale timeout: SpecBurst *)

\* settings of a user who wants eight presses per tap, 100 ms apart
LongBurstSettings ==
    [DEFAULTS EXCEPT !.slow_burst_count = 8000, !.slow_burst_interval = 100]

InitBurst == Constructed(SaveToKrita(LongBurstSettings))

\* keys are pressed and kept down, every timer fires when it is due, and the
\* window's filter sees events that are no key events
NextBurst ==
    \/ \E h \in Handlers : StartPress(h) /\ NoCall
    \/ BurstTimeouts
    \/ PollTimeouts
    \/ \E event \in {e \in WindowEvents : e.type = "Paint"} : EventFilter(event) /\ NoCall
    \/ AdvanceFair(LongBurstSettings.slow_burst_interval, MaxBurstTime) /\ NoCall

SpecBurst == InitBurst /\ [][NextBurst]_vars

-----------------------------------------------------------------------------
(* Settings pushed while keys are tapped: SpecPush *)

\* the values the settings panel pushes: another burst count and another
\* burst interval
PushInputs == {<<"slow_burst_count", 5000>>, <<"slow_burst_interval", 10>>}

InitPush == Constructed(SaveToKrita(FastSettings))

NextPush ==
    \/ \E h \in Handlers : StartPress(h) /\ NoCall
    \/ \E h \in Handlers : EndPress(h) /\ NoCall
    \/ BurstTimeouts
    \/ PollTimeouts
    \/ \E kv \in PushInputs : Set(kv[1], kv[2]) /\ NoCall
    \/ Advance(timer_interval) /\ NoCall

SpecPush == InitPush /\ [][NextPush]_vars

-----------------------------------------------------------------------------
(* The settings store on its own: SpecStore *)

\* settings as saved by a user who turned the multiplier off and set four
\* presses per tap
SavedSettings ==
    [DEFAULTS EXCEPT !.multiplier_enabled = FALSE, !.slow_burst_count = 4000]

InitStore ==
    \E store \in {EmptyStorage, SaveToKrita(SavedSettings)} : Constructed(store)

\* the call is noted, with the key it was given, if any, and with _current as
\* it is before it; a run makes at most MaxCalls calls
CalledWith(name, key) ==
    /\ ncalls < MaxCalls
    /\ ncalls' = ncalls + 1
    /\ LET entry == [call |-> name, key |-> key, before |-> current]
       IN  calls' = IF calls = <<>> THEN <<entry>> ELSE <<calls[Len(calls)], entry>>

Called(name) == CalledWith(name, "")

\* the values the settings panel and other callers pass to set(): a count with
\* and without a fraction, a time, and a key the store does not know
SetInputs ==
    {<<"slow_burst_count", 3000>>, <<"slow_burst_count", 2500>>,
     <<"hold_detect_time", 35>>, <<"no_such_key", 1000>>}

\* the docker's checkbox calls set_threshold_enabled unless it reverts itself
CheckboxCalls(threshold_key, is_checked) ==
    /\ OnCheckboxChanged(threshold_key, is_checked)
    /\ IF ~is_checked /\ get_enabled_threshold_count(current) <= 1
       THEN NoCall
       ELSE Called("set_threshold_enabled")

NextStore ==
    \/ \E kv \in SetInputs : Set(kv[1], kv[2]) /\ CalledWith("set", kv[1])
    \/ \E k \in ThresholdKeys, b \in BOOLEAN :
          SetThresholdEnabled(k, b) /\ Called("set_threshold_enabled")
    \/ \E k \in ThresholdKeys, b \in BOOLEAN : CheckboxCalls(k, b)
    \/ Save /\ Called("save")
    \/ Cancel /\ Called("cancel")
    \/ ResetToDefaults /\ Called("reset_to_defaults")
    \/ \E h \in Handlers : RegisterHandler(h) /\ Called("register_handler")
    \/ \E h \in Handlers : UnregisterHandler(h) /\ Called("unregister_handler")
    \/ \E h \in {"up", "down"} : HostChanges(h) /\ NoCall

SpecStore == InitStore /\ [][NextStore]_vars

-----------------------------------------------------------------------------
(* The settings store built from what host storage holds: SpecLoad *)

\* SettingsManager.__init__ has raised out of _load_from_krita: the instance
\* is lost with the keys it had loaded, its _saved still the defaults, and the
\* extension that asked for it is not built, so no handler is made
RaisedAtLoad(store) ==
    /\ now = StartTime
    /\ host = "up"
    /\ brush_size = StartBrush
    /\ storage = store
    /\ current = PartialLoad(store)
    /\ saved = DEFAULTS
    /\ before_reset = NoSnapshot
    /\ handlers = <<>>
    /\ handler = [h \in Handlers |-> NewHandler]
    /\ event_filter = NewFilter
    /\ shortcuts = NoShortcuts
    /\ last_result = "OverflowError"
    /\ calls = <<>>
    /\ ncalls = 0

\* the store exists: its construction has not raised
Built == last_result # "OverflowError"

\* what host storage may hold for three of the keys, one of each type, written
\* by an earlier save or by hand: nothing, a value as save() writes it, a
\* count with a fraction, a flag as a digit, a word that is no value, and for
\* the count the two words float() accepts
StoredChoices ==
    [slow_burst_count |-> {Absent, Numeral(4000, FALSE), Numeral(2500, TRUE),
                           Word("abc"), Special("nan"), Special("inf")},
     hold_detect_time |-> {Absent, Numeral(35, TRUE), Word("abc")},
     hold_enabled     |-> {Absent, Word("False"), Numeral(1000, FALSE), Word("abc")}]

LoadStores ==
    {[EmptyStorage EXCEPT !.slow_burst_count = c, !.hold_detect_time = t, !.hold_enabled = e] :
        c \in StoredChoices.slow_burst_count,
        t \in StoredChoices.hold_detect_time,
        e \in StoredChoices.hold_enabled}

InitLoad ==
    \E store \in LoadStores :
        IF LoadRaises("up", store) THEN RaisedAtLoad(store) ELSE Constructed(store)

\* the calls the settings panel makes on the store it was given
NextLoad ==
    \/ Built /\ Cancel /\ Called("cancel")
    \/ Built /\ ResetToDefaults /\ Called("reset_to_defaults")
    \/ Built /\ Save /\ Called("save")
    \/ \E kv \in SetInputs : Built /\ Set(kv[1], kv[2]) /\ CalledWith("set", kv[1])

SpecLoad == InitLoad /\ [][NextLoad]_vars

-----------------------------------------------------------------------------
(* Properties of the paired handlers, under Spec *)

Decrease == handler["decrease"]
Increase == handler["increase"]

\* a handler with anything in progress: pressed, in a burst, or a timer armed
InProgress(h) ==
    \/ handler[h].is_pressed
    \/ handler[h].burst_active
    \/ handler[h].burst_timer # NoTimer
    \/ handler[h].timer # NoTimer

\* Idle: not pressed, both timers disarmed, no burst
Idle(me) ==
    /\ ~me.is_pressed
    /\ me.timer = NoTimer
    /\ me.burst_timer = NoTimer
    /\ ~me.burst_active
    /\ me.burst_remaining = 0

\* C1: the two paired handlers are never both pressed, and never both have a
\* burst, a hold or a timer in progress, whatever the interleaving of presses,
\* releases, forced stops, timer callbacks and settings pushes.
C1_MutualExclusion ==
    /\ ~(Decrease.is_pressed /\ Increase.is_pressed)
    /\ ~(InProgress("decrease") /\ InProgress("increase"))

\* C1 witness: increase is pressed and mid-burst right after decrease, which was
\* pressed at the same instant and never released, has been stopped.
C1_Witness ==
    /\ Increase.is_pressed /\ Increase.burst_timer # NoTimer
    /\ Increase.press_start_time = now
    /\ ~Decrease.is_pressed /\ Decrease.trigger_count > 0
    /\ Decrease.press_start_time = now
    /\ Decrease.last_release_time = 0

\* C2: a handler that is not pressed is Idle: no armed timer, no active burst,
\* no burst step remaining.
C2_NotPressedIsIdle == \A h \in Handlers : ~handler[h].is_pressed => Idle(handler[h])

\* C2 witness: one handler was released in the middle of its burst (one
\* trigger fired, release stamped now), the other was pressed and then stopped
\* without a release.
C2_Witness ==
    /\ Idle(Decrease) /\ Decrease.last_release_time = now
    /\ Decrease.press_start_time = now /\ Decrease.trigger_count = 1
    /\ Decrease.cfg.SLOW_BURST_COUNT = 3
    /\ Idle(Increase) /\ Increase.trigger_count > 0 /\ Increase.last_release_time = 0

\* C3 as claimed: an end_press in the middle of a burst leaves the remaining
\* burst steps scheduled, so that they still fire after the release.
C3_InFlightBurstCompletes ==
    [][\A h \in Handlers :
          (handler[h].is_pressed /\ handler[h].burst_remaining > 0 /\ EndPress(h))
          => /\ handler'[h].burst_timer # NoTimer
             /\ handler'[h].burst_remaining = handler[h].burst_remaining]_vars

\* C3 as amended: end_press cancels the burst in flight: it disarms the burst
\* timer and clears the remaining steps without firing any, and no trigger is
\* emitted for a handler while it stays not pressed; the press keeps the total
\* it had at the release.
C3_ReleaseCancelsBurst ==
    /\ [][\A h \in Handlers :
            (handler[h].is_pressed /\ EndPress(h))
            => /\ handler'[h].burst_timer = NoTimer
               /\ handler'[h].burst_remaining = 0
               /\ ~handler'[h].burst_active
               /\ handler'[h].trigger_count = handler[h].trigger_count]_vars
    /\ [][\A h \in Handlers :
            (~handler[h].is_pressed /\ ~handler'[h].is_pressed)
            => handler'[h].trigger_count = handler[h].trigger_count]_vars

\* C3 witness: tap enabled, hold disabled, burst count 3; the key was pressed
\* and released at once, and two burst intervals later the press still has one
\* trigger in total and nothing scheduled.
C3_Witness ==
    \E h \in Handlers :
        /\ handler[h].cfg.SLOW_TAP_ENABLED /\ ~handler[h].cfg.HOLD_ENABLED
        /\ handler[h].cfg.SLOW_BURST_COUNT = 3
        /\ ~handler[h].is_pressed
        /\ handler[h].last_release_time > 0
        /\ handler[h].press_start_time = handler[h].last_release_time
        /\ handler[h].trigger_count = 1
        /\ handler[h].burst_timer = NoTimer
        /\ now >= handler[h].last_release_time + 2 * handler[h].cfg.SLOW_BURST_INTERVAL

\* C6 as claimed: a pressed handler always has a live timer.
C6_PressedHasTimer ==
    \A h \in Handlers :
        handler[h].is_pressed
        => (handler[h].timer # NoTimer \/ handler[h].burst_timer # NoTimer)

\* the burst start_press starts on an idle handler, by the claim's rule
Multiplied(me) ==
    /\ me.cfg.SLOW_TAP_ENABLED
    /\ me.cfg.MULTIPLIER_ENABLED
    /\ me.last_release_time # 0
    /\ now - me.last_release_time < me.cfg.SLOW_TAP_THRESHOLD
    /\ now - me.last_release_time < me.cfg.MULTIPLIER_THRESHOLD

ExpectedCount(me) ==
    IF Multiplied(me)
    THEN me.cfg.SLOW_BURST_COUNT * me.cfg.MULTIPLIER_BURST_COUNT
    ELSE me.cfg.SLOW_BURST_COUNT

ExpectedInterval(me) ==
    IF Multiplied(me)
    THEN me.cfg.MULTIPLIER_BURST_INTERVAL
    ELSE me.cfg.SLOW_BURST_INTERVAL

StoppedAfterRelease(me) ==
    /\ ~me.is_pressed
    /\ me.last_release_time > 0
    /\ me.last_release_time < me.press_start_time

\* C12: force_stop leaves a pressed handler as end_press would, except that
\* last_release_time keeps its value; whenever a press ends in a step that is
\* not its end_press (the pair starting, a forced stop) the handler is Idle and
\* last_release_time is unchanged, so that last_release_time only ever changes
\* to the time of an end_press, and the next start_press is classified with it.
C12_ForceStopKeepsRelease ==
    [][\A h \in Handlers :
          /\ (handler[h].is_pressed /\ ForceStop(h))
             => handler'[h] = [end_press(World, h).handler[h] EXCEPT
                                  !.last_release_time = handler[h].last_release_time]
          /\ (handler[h].is_pressed /\ ~handler'[h].is_pressed /\ ~EndPress(h))
             => /\ Idle(handler'[h])
                /\ handler'[h].last_release_time = handler[h].last_release_time
          /\ handler'[h].last_release_time # handler[h].last_release_time
             => /\ handler[h].is_pressed /\ EndPress(h)
                /\ handler'[h].last_release_time = now
          /\ (StoppedAfterRelease(handler[h]) /\ StartPress(h))
             => /\ handler'[h].current_burst_interval = ExpectedInterval(handler[h])
                /\ handler'[h].last_release_time = handler[h].last_release_time]_vars

\* C12 witness: a handler released earlier was pressed again and then stopped
\* without a release; its last_release_time is still the earlier one, and a
\* press now would be in quick succession of it.
C12_Witness ==
    \E h \in Handlers :
        /\ StoppedAfterRelease(handler[h])
        /\ Idle(handler[h])
        /\ Multiplied(handler[h])

\* C13: start_press on a handler that is already pressed changes nothing: no
\* trigger (trigger counter and brush size as they were), the paired handler
\* untouched, both timers, press-start time, burst state and mode as they were.
C13_StartPressWhilePressed ==
    \A h \in Handlers :
        handler[h].is_pressed
        => LET after == start_press(World, h)
           IN  /\ after.handler = handler
               /\ after.brush_size = brush_size

\* C13 witness: a handler is pressed, two steps into its burst with the next one
\* scheduled, some time after the press began: a second start_press that
\* restarted the press would show.
C13_Witness ==
    \E h \in Handlers :
        /\ handler[h].is_pressed
        /\ handler[h].burst_active /\ handler[h].burst_timer # NoTimer
        /\ handler[h].trigger_count = 2
        /\ handler[h].press_start_time < now

\* C14: end_press on a handler that is not pressed changes nothing, its
\* last_release_time included; on a pressed handler it stamps last_release_time
\* with the time of the call and leaves the handler Idle; in both cases the
\* paired handler and the brush size are as they were.
C14_EndPress ==
    \A h \in Handlers :
        LET after == end_press(World, h)
        IN  /\ after.handler[paired_handler(h)] = handler[paired_handler(h)]
            /\ after.brush_size = brush_size
            /\ IF handler[h].is_pressed
               THEN /\ after.handler[h].last_release_time = now
                    /\ Idle(after.handler[h])
                    /\ after.handler[h].trigger_count = handler[h].trigger_count
               ELSE after.handler[h] = handler[h]

\* C14 witness: a handler has just been released, some time into its press,
\* while its pair, released earlier, keeps the marks of its own press.
C14_Witness ==
    \E h \in Handlers :
        /\ ~handler[h].is_pressed
        /\ handler[h].last_release_time = now
        /\ handler[h].press_start_time < now
        /\ handler[h].trigger_count > 0
        /\ LET p == handler[paired_handler(h)]
           IN  /\ ~p.is_pressed
               /\ p.last_release_time > 0 /\ p.last_release_time < now
               /\ p.trigger_count > 0

\* C24: hold detection never preempts a burst. In every reachable state a
\* handler with a burst active is not in HOLD mode and its poll timer is not
\* armed; and a handler becomes HOLD only in a tick of its poll timer that
\* finds it pressed, hold enabled, no burst active and the time since
\* press_start_time at or above HOLD_DETECT_TIME.
C24_HoldNeverPreemptsBurst ==
    /\ [](\A h \in Handlers :
             handler[h].burst_active
             => (handler[h].current_mode # HOLD /\ handler[h].timer = NoTimer))
    /\ [][\A h \in Handlers :
             (handler[h].current_mode # HOLD /\ handler'[h].current_mode = HOLD)
             => /\ PollTimeout(h)
                /\ handler[h].is_pressed
                /\ handler[h].cfg.HOLD_ENABLED
                /\ ~handler[h].burst_active
                /\ now - handler[h].press_start_time >= handler[h].cfg.HOLD_DETECT_TIME]_vars

\* a first press went through its whole burst of three, then became a hold
\* and fired once more
C24_Witness ==
    /\ Increase.is_pressed
    /\ Increase.current_mode = HOLD
    /\ Increase.last_release_time = 0
    /\ Increase.cfg.SLOW_BURST_COUNT = 3
    /\ Increase.trigger_count = Increase.cfg.SLOW_BURST_COUNT + 1
    /\ Decrease.press_start_time = 0

\* a step of a burst of h fires: the first in start_press, the others in the
\* ticks of the burst timer
BurstStep(h) ==
    \/ StartPress(h) /\ ~handler[h].is_pressed
    \/ BurstTimeout(h) /\ handler'[h].trigger_count = handler[h].trigger_count + 1

\* what the safety check does to h when a trigger has fired
SafetyChecked(h) ==
    IF Abs(brush_size' - brush_size) < EPSILON
    THEN IF handler[h].unchanged_trigger_count + 1 >= MAX_UNCHANGED_TRIGGERS
         THEN Idle(handler'[h])
         ELSE handler'[h].unchanged_trigger_count = handler[h].unchanged_trigger_count + 1
    ELSE handler'[h].unchanged_trigger_count = 0

\* C26 as claimed: every trigger, a burst step as well as a hold trigger, takes
\* part in the safety check: an unchanged size counts one more, a change
\* starts the count again, and the count at MAX_UNCHANGED_TRIGGERS stops the
\* handler.
C26_EveryTriggerChecked ==
    [][\A h \in Handlers :
          (\/ BurstStep(h)
           \/ PollTimeout(h) /\ handler'[h].trigger_count = handler[h].trigger_count + 1)
          => SafetyChecked(h)]_vars

\* C26 amended: the hold triggers of the poll tick take part in the safety
\* check, the steps of a burst do not. A burst step leaves the handler pressed
\* with the count of unchanged triggers at 0 whatever the size did, the count
\* is 0 as long as a burst is active, and the count goes up only in a poll
\* tick of a handler in HOLD mode.
C26_OnlyHoldTriggersChecked ==
    /\ [](\A h \in Handlers :
             handler[h].burst_active => handler[h].unchanged_trigger_count = 0)
    /\ [][\A h \in Handlers :
             BurstStep(h)
             => /\ handler'[h].is_pressed
                /\ handler'[h].unchanged_trigger_count = 0]_vars
    /\ [][\A h \in Handlers :
             (PollTimeout(h) /\ handler'[h].trigger_count = handler[h].trigger_count + 1)
             => SafetyChecked(h)]_vars
    /\ [][\A h \in Handlers :
             handler'[h].unchanged_trigger_count > handler[h].unchanged_trigger_count
             => /\ PollTimeout(h)
                /\ handler'[h].current_mode = HOLD]_vars

\* decrease, never released, has fired its burst of three from size 1: no step
\* moved the size by EPSILON, the last two left it at its minimum, and the
\* count of unchanged triggers is 0
C26_Witness ==
    /\ Decrease.is_pressed
    /\ ~Decrease.burst_active
    /\ Decrease.last_release_time = 0
    /\ Decrease.trigger_count = 3
    /\ Decrease.unchanged_trigger_count = 0
    /\ brush_size = 0
    /\ Increase.press_start_time = 0

\* C27: a burst of N steps on a key that stays down fires N triggers. The
\* first fires in start_press, which leaves N - 1 to fire; each tick of the
\* burst timer fires one and schedules the next only while steps remain; the
\* steps fired and the steps left add up to the same N all through the burst;
\* and the Nth leaves burst_active false, burst_remaining 0 and the burst
\* timer disarmed.
C27_BurstFiresItsCount ==
    /\ [](\A h \in Handlers :
             IF handler[h].burst_active
             THEN /\ handler[h].is_pressed
                  /\ handler[h].burst_remaining > 0
                  /\ handler[h].burst_timer # NoTimer
             ELSE /\ handler[h].burst_remaining = 0
                  /\ handler[h].burst_timer = NoTimer)
    /\ [][\A h \in Handlers :
             (~handler[h].is_pressed /\ StartPress(h))
             => /\ handler'[h].trigger_count = 1
                /\ handler'[h].burst_remaining = ExpectedCount(handler[h]) - 1
                /\ handler'[h].burst_active <=> ExpectedCount(handler[h]) > 1]_vars
    /\ [][\A h \in Handlers :
             (handler[h].burst_active /\ BurstTimeout(h))
             => /\ now >= handler[h].burst_timer
                /\ handler'[h].trigger_count = handler[h].trigger_count + 1
                /\ handler'[h].burst_remaining = handler[h].burst_remaining - 1
                /\ handler'[h].is_pressed
                /\ IF handler[h].burst_remaining > 1
                   THEN /\ handler'[h].burst_active
                        /\ handler'[h].burst_timer = now + handler[h].current_burst_interval
                   ELSE /\ ~handler'[h].burst_active
                        /\ handler'[h].burst_timer = NoTimer]_vars
    /\ [][\A h \in Handlers :
             (handler[h].burst_active /\ handler'[h].burst_active)
             => handler'[h].trigger_count + handler'[h].burst_remaining
                   = handler[h].trigger_count + handler[h].burst_remaining]_vars

\* the third and last step of a burst of three has just fired on a key that
\* is still down: the burst is over, its timer disarmed, hold detection begun
C27_Witness ==
    /\ Increase.is_pressed
    /\ ~Increase.burst_active
    /\ Increase.burst_remaining = 0
    /\ Increase.burst_timer = NoTimer
    /\ Increase.cfg.SLOW_BURST_COUNT = 3
    /\ Increase.trigger_count = Increase.cfg.SLOW_BURST_COUNT
    /\ Increase.current_mode = SLOW_TAP
    /\ Increase.press_start_time = now
    /\ Increase.timer = now + timer_interval

\* the press that start_press is about to note does not qualify as a tap: tap
\* mode is disabled, or a release exists and the time since it is at or above
\* the tap threshold
NotTap(me) ==
    \/ ~me.cfg.SLOW_TAP_ENABLED
    \/ me.last_release_time # 0 /\ now - me.last_release_time >= me.cfg.SLOW_TAP_THRESHOLD

-----------------------------------------------------------------------------
(* Properties of taps with the default settings, under SpecTap *)

\* the press of a pressed handler began after a release, within both the tap
\* threshold and the multiplier threshold of it, with tap and multiplier enabled
QuickSuccession(me) ==
    /\ me.is_pressed
    /\ me.cfg.SLOW_TAP_ENABLED /\ me.cfg.MULTIPLIER_ENABLED
    /\ me.last_release_time > 0
    /\ me.press_start_time - me.last_release_time < me.cfg.SLOW_TAP_THRESHOLD
    /\ me.press_start_time - me.last_release_time < me.cfg.MULTIPLIER_THRESHOLD

MultipliedCount(me) == me.cfg.SLOW_BURST_COUNT * me.cfg.MULTIPLIER_BURST_COUNT

\* C11: while the key stays down, the burst of a press in quick succession
\* (0.05 s after the release, thresholds 0.1 s and 0.15 s, multiplier count 3)
\* fires slow_burst_count * multiplier_burst_count triggers in all: the steps
\* fired and the steps left always add up to that count, each step fires one
\* trigger and schedules the next multiplier_burst_interval later, and the
\* last one ends the burst with the full count fired.
C11_MultipliedBurst ==
    /\ [](\A h \in Handlers :
            (QuickSuccession(handler[h]) /\ handler[h].burst_active)
            => /\ handler[h].trigger_count + handler[h].burst_remaining
                     = MultipliedCount(handler[h])
               /\ handler[h].burst_remaining > 0
               /\ handler[h].current_burst_interval
                     = handler[h].cfg.MULTIPLIER_BURST_INTERVAL
               /\ handler[h].burst_timer # NoTimer)
    /\ [][\A h \in Handlers :
            (QuickSuccession(handler[h]) /\ handler[h].burst_active /\ BurstTimeout(h))
            => /\ handler'[h].trigger_count = handler[h].trigger_count + 1
               /\ now >= handler[h].burst_timer
               /\ IF handler[h].burst_remaining > 1
                  THEN /\ handler'[h].burst_active
                       /\ handler'[h].burst_timer
                             = now + handler[h].cfg.MULTIPLIER_BURST_INTERVAL
                  ELSE /\ ~handler'[h].burst_active
                       /\ handler'[h].burst_timer = NoTimer
                       /\ handler'[h].trigger_count = MultipliedCount(handler[h])]_vars

\* C11 witness: with the default settings (thresholds 100 ms and 150 ms, counts
\* 3 and 3) increase, released at 1 ms and pressed again 50 ms later, has
\* fired its 9 triggers 1 ms apart and the key is still down.
C11_Witness ==
    /\ Increase.is_pressed /\ ~Increase.burst_active
    /\ Increase.cfg = ApplyToHandler(DEFAULTS)
    /\ Increase.last_release_time = StartTime
    /\ Increase.trigger_count = 9
    /\ Increase.current_burst_interval = Increase.cfg.MULTIPLIER_BURST_INTERVAL
    /\ now = StartTime + TapGap + 8 * Increase.cfg.MULTIPLIER_BURST_INTERVAL

-----------------------------------------------------------------------------
(* Properties of long presses, under SpecLong *)

\* C19 as claimed: in every configuration, a handler still pressed, its burst
\* over, more than MAX_PRESS_DURATION after its press started has its poll tick
\* pending, the tick that force-stops it.
C19_PressStopsAtMaxDuration ==
    \A h \in Handlers :
        (/\ handler[h].is_pressed
         /\ ~handler[h].burst_active
         /\ now - handler[h].press_start_time > MAX_PRESS_DURATION)
        => handler[h].timer # NoTimer

\* what the poll tick does with hold enabled: a tick that finds the handler
\* pressed for more than MAX_PRESS_DURATION leaves it Idle and fires no trigger
LongPressTickStops ==
    [][\A h \in Handlers :
          (/\ handler[h].is_pressed
           /\ now - handler[h].press_start_time > MAX_PRESS_DURATION
           /\ PollTimeout(h))
          => /\ Idle(handler'[h])
             /\ handler'[h].trigger_count = handler[h].trigger_count
             /\ brush_size' = brush_size]_vars

LongPressStopped ==
    \E h \in Handlers :
        /\ Idle(handler[h])
        /\ handler[h].last_release_time = 0
        /\ handler[h].trigger_count > 0
        /\ handler[h].cfg.HOLD_ENABLED
        /\ now - handler[h].press_start_time > MAX_PRESS_DURATION
        /\ handler[paired_handler(h)].trigger_count = 0

-----------------------------------------------------------------------------
(* Properties of a held key, under SpecHold *)

\* C7: in Hold mode every trigger of the poll tick whose quantity is unchanged
\* (before and after differ by less than epsilon) counts one more, any change
\* starts the count again, and the trigger that makes MAX_UNCHANGED_TRIGGERS in
\* a row leaves the handler Idle at once: the count never stands at the limit.
C7_StallStops ==
    /\ [](\A h \in Handlers :
            handler[h].unchanged_trigger_count < MAX_UNCHANGED_TRIGGERS)
    /\ [][\A h \in Handlers :
            (/\ PollTimeout(h)
             /\ handler[h].is_pressed
             /\ handler'[h].trigger_count = handler[h].trigger_count + 1)
            => IF Abs(brush_size' - brush_size) < EPSILON
               THEN IF handler[h].unchanged_trigger_count + 1 >= MAX_UNCHANGED_TRIGGERS
                    THEN Idle(handler'[h])
                    ELSE /\ handler'[h].is_pressed
                         /\ handler'[h].unchanged_trigger_count
                               = handler[h].unchanged_trigger_count + 1
               ELSE /\ handler'[h].is_pressed
                    /\ handler'[h].unchanged_trigger_count = 0]_vars

\* C7 witness: decrease was never released; it fired the steps of its burst
\* and then 15 hold triggers with the brush at its minimum, and is Idle, far
\* from MAX_PRESS_DURATION, while increase was never pressed.
C7_Witness ==
    /\ Idle(Decrease)
    /\ Decrease.last_release_time = 0
    /\ Decrease.current_mode = HOLD
    /\ Decrease.trigger_count = Decrease.cfg.SLOW_BURST_COUNT + MAX_UNCHANGED_TRIGGERS
    /\ brush_size = 0
    /\ now - Decrease.press_start_time < MAX_PRESS_DURATION
    /\ now > Decrease.last_trigger_time
    /\ Increase.trigger_count = 0

-----------------------------------------------------------------------------
(* Properties of the accelerating repeat, under SpecAccel *)

\* the handler as it is once in Hold mode
Held(me) == [me EXCEPT !.current_mode = HOLD]

\* max(min_interval, base_interval * exp(-k * max(0, t - hold_detect_time) / tau))
TargetInterval(c, t) ==
    Max(c.HOLD_MIN_INTERVAL,
        (c.HOLD_BASE_INTERVAL
            * ExpNeg((c.HOLD_EXP_K * Max(0, t - c.HOLD_DETECT_TIME)) \div c.HOLD_TAU)) \div 1000)

\* C34: in Hold mode the interval computed at elapsed time t is
\* max(min_interval, base_interval * exp(-k * max(0, t - hold_detect_time) / tau)):
\* never below min_interval, never above max(min_interval, base_interval),
\* non-increasing in t; and a poll tick fires at most one trigger, and only in
\* Hold mode when the time since the last trigger is at least the interval at
\* the time elapsed since the start.
C34_HoldInterval ==
    /\ [](\A h \in Handlers : \A t \in 0 .. MaxAccelTime :
            LET c == handler[h].cfg
                interval == get_current_interval(Held(handler[h]), t)
            IN  /\ interval = TargetInterval(c, t)
                /\ interval >= c.HOLD_MIN_INTERVAL
                /\ interval <= Max(c.HOLD_MIN_INTERVAL, c.HOLD_BASE_INTERVAL)
                /\ interval >= get_current_interval(Held(handler[h]), t + 1))
    /\ [][\A h \in Handlers :
            PollTimeout(h)
            => /\ handler'[h].trigger_count \in {handler[h].trigger_count,
                                                 handler[h].trigger_count + 1}
               /\ handler'[h].trigger_count # handler[h].trigger_count
                     => /\ handler'[h].current_mode = HOLD
                        /\ now - handler[h].last_trigger_time
                              >= TargetInterval(handler[h].cfg, now - handler[h].press_start_time)]_vars

\* a held key has just fired its first hold trigger, more than one tick
\* period after the press, at an interval strictly between the floor and the
\* base interval
C34_Witness ==
    \E h \in Handlers :
        LET me == handler[h]
            interval == get_current_interval(me, now - me.press_start_time)
        IN  /\ me.is_pressed
            /\ me.current_mode = HOLD
            /\ me.trigger_count = me.cfg.SLOW_BURST_COUNT + 1
            /\ me.last_trigger_time = now
            /\ now - me.press_start_time > timer_interval
            /\ interval > me.cfg.HOLD_MIN_INTERVAL
            /\ interval < me.cfg.HOLD_BASE_INTERVAL

-----------------------------------------------------------------------------
(* Properties of the stale check, under SpecStale *)

\* C8: check_and_fix_stale_state() on a handler that is pressed and whose last
\* timer activity is more than STALE_STATE_TIMEOUT old finds it stale, returns
\* True and leaves it Idle, with last_release_time as it was.
C8_StaleRecovery ==
    [][\A h \in Handlers :
          (/\ handler[h].is_pressed
           /\ now - handler[h].last_timer_activity > STALE_STATE_TIMEOUT
           /\ CheckAndFixStaleState(h))
          => /\ is_stale_state(handler[h])
             /\ last_result' = "True"
             /\ Idle(handler'[h])
             /\ handler'[h].last_release_time = handler[h].last_release_time]_vars

\* C8 witness: a handler that had been released before was pressed again,
\* went stale in the middle of its burst and has just been fixed: it is Idle
\* and its last release is still the one before that press.
C8_Witness ==
    \E h \in Handlers :
        /\ last_result = "True"
        /\ Idle(handler[h])
        /\ now - handler[h].last_timer_activity > STALE_STATE_TIMEOUT
        /\ handler[h].trigger_count > 0
        /\ handler[h].last_release_time > 0
        /\ handler[h].last_release_time < handler[h].press_start_time
        /\ ~handler[paired_handler(h)].is_pressed
        /\ handler[paired_handler(h)].trigger_count = 0

\* the handler is pressed and its last timer activity is more than
\* STALE_STATE_TIMEOUT old
PressedAndOld(me) ==
    me.is_pressed /\ now - me.last_timer_activity > STALE_STATE_TIMEOUT

\* C31: is_stale_state() is true exactly when the handler is pressed and more
\* than STALE_STATE_TIMEOUT has passed since its last timer activity, so it is
\* false for a handler that is not pressed; check_and_fix_stale_state() on a
\* handler that is not stale returns False and changes no handler.
C31_StaleIffPressedAndOld ==
    /\ [](\A h \in Handlers :
            /\ is_stale_state(handler[h]) <=> PressedAndOld(handler[h])
            /\ ~handler[h].is_pressed => ~is_stale_state(handler[h])
            /\ ~PressedAndOld(handler[h]) => check_and_fix_stale_state(World, h) = World)
    /\ [][\A h \in Handlers :
            (~PressedAndOld(handler[h]) /\ CheckAndFixStaleState(h))
            => /\ last_result' = "False"
               /\ handler' = handler
               /\ brush_size' = brush_size]_vars

\* the check has answered False at a time when one handler is pressed with
\* its last timer activity exactly STALE_STATE_TIMEOUT old, and the other,
\* pressed and force-stopped long ago, is not pressed
C31_Witness ==
    \E h \in Handlers :
        /\ last_result = "False"
        /\ handler[h].is_pressed
        /\ now - handler[h].last_timer_activity = STALE_STATE_TIMEOUT
        /\ ~handler[paired_handler(h)].is_pressed
        /\ handler[paired_handler(h)].trigger_count > 0
        /\ now - handler[paired_handler(h)].last_timer_activity > STALE_STATE_TIMEOUT

-----------------------------------------------------------------------------
(* Properties of the settings store, under SpecStore *)

LastCall == calls[Len(calls)]

\* C4 as claimed: a set_threshold_enabled call made while at least one
\* threshold is enabled leaves at least one enabled: the call that would bring
\* the count to zero is rejected.
C4_StoreKeepsOneEnabled ==
    (/\ calls # <<>>
     /\ LastCall.call = "set_threshold_enabled"
     /\ get_enabled_threshold_count(LastCall.before) >= 1)
    => get_enabled_threshold_count(current) >= 1

\* C5 as claimed: in every reachable state of the store at least one of the
\* three enabled flags is true, in the settings and in every registered handler.
C5_OneThresholdEnabled ==
    /\ current.hold_enabled \/ current.slow_tap_enabled \/ current.multiplier_enabled
    /\ \A h \in Registered(handlers) :
          \/ handler[h].cfg.HOLD_ENABLED
          \/ handler[h].cfg.SLOW_TAP_ENABLED
          \/ handler[h].cfg.MULTIPLIER_ENABLED

AttributeOf ==
    [hold_detect_time          |-> "HOLD_DETECT_TIME",
     slow_tap_threshold        |-> "SLOW_TAP_THRESHOLD",
     multiplier_threshold      |-> "MULTIPLIER_THRESHOLD",
     hold_enabled              |-> "HOLD_ENABLED",
     slow_tap_enabled          |-> "SLOW_TAP_ENABLED",
     multiplier_enabled        |-> "MULTIPLIER_ENABLED",
     hold_base_interval        |-> "HOLD_BASE_INTERVAL",
     hold_min_interval         |-> "HOLD_MIN_INTERVAL",
     hold_exp_k                |-> "HOLD_EXP_K",
     hold_tau                  |-> "HOLD_TAU",
     slow_burst_count          |-> "SLOW_BURST_COUNT",
     slow_burst_interval       |-> "SLOW_BURST_INTERVAL",
     multiplier_burst_count    |-> "MULTIPLIER_BURST_COUNT",
     multiplier_burst_interval |-> "MULTIPLIER_BURST_INTERVAL"]

\* C15: in every state of the store, whatever calls were made, each handler of
\* the push list holds the current value of all fourteen settings (a count as
\* the whole number it is), and no handler is on the push list twice.
C15_HandlersFollowStore ==
    /\ \A h \in Registered(handlers) : \A key \in Keys :
          IF key \in IntKeys
          THEN handler[h].cfg[AttributeOf[key]] * 1000 = current[key]
          ELSE handler[h].cfg[AttributeOf[key]] = current[key]
    /\ Cardinality(Registered(handlers)) = Len(handlers)

\* C15 witness: a handler that was taken off the push list, missed a change of
\* the settings and was registered again holds the changed, unsaved settings,
\* as does the other handler.
C15_Witness ==
    /\ Len(calls) = 2
    /\ calls[1].call = "set"
    /\ calls[2].call = "register_handler"
    /\ calls[1].before # current
    /\ current # saved
    /\ Registered(handlers) = Handlers
    /\ handlers[1] = "increase"
    /\ \A h \in Handlers : handler[h].cfg = ApplyToHandler(current)

\* the step is a noted call of the method name
IsCall(name) ==
    /\ ncalls' = ncalls + 1
    /\ calls'[Len(calls')].call = name

C17_Save ==
    /\ [][IsCall("save")
          => /\ current' = current
             /\ IF host # "down"
                THEN /\ \A key \in Keys : storage'[key] = Str(key, current[key])
                     /\ saved' = current
                     /\ before_reset' = NoSnapshot
                     /\ last_result' = "True"
                ELSE /\ UNCHANGED <<saved, before_reset, storage>>
                     /\ last_result' = "False"]_vars
    /\ [][(/\ calls # <<>>
           /\ LastCall.call = "save"
           /\ last_result = "True"
           /\ IsCall("cancel"))
          => /\ current' = current
             /\ current' = saved']_vars

\* C17 witness: a save() made right after a reset that changed the settings
\* has succeeded: the defaults are the last save and are in host storage, and
\* the snapshot is gone.
C17_Witness ==
    /\ Len(calls) = 2
    /\ calls[1].call = "reset_to_defaults"
    /\ calls[2].call = "save"
    /\ calls[1].before # DEFAULTS
    /\ last_result = "True"
    /\ saved = DEFAULTS
    /\ storage = SaveToKrita(DEFAULTS)
    /\ before_reset = NoSnapshot

\* C18: the last save and host storage change only in a save() made with the
\* host there: set, set_threshold_enabled, reset_to_defaults, cancel and the
\* calls on the push list leave both alone; and a set() with a key the store
\* does not know changes no setting and no handler.
C18_OnlySavePersists ==
    /\ [][(saved' # saved \/ storage' # storage)
          => (IsCall("save") /\ host # "down")]_vars
    /\ [][(IsCall("set") /\ calls'[Len(calls')].key \notin Keys)
          => UNCHANGED <<current, saved, before_reset, handlers, storage, handler>>]_vars

\* C18 witness: the settings were changed and then reset, the last call being
\* a set() with an unknown key: the defaults are current, and the last save and
\* host storage still hold the settings loaded at the start.
C18_Witness ==
    /\ Len(calls) = 2
    /\ calls[1].call = "reset_to_defaults"
    /\ calls[1].before # saved
    /\ calls[2].call = "set" /\ calls[2].key \notin Keys
    /\ current = DEFAULTS
    /\ saved = SavedSettings
    /\ storage = SaveToKrita(SavedSettings)

C39_CancelUndoesResets ==
    (calls = <<>> \/ LastCall.call # "reset_to_defaults")
    => LET once   == reset_to_defaults(Store)
           twice  == reset_to_defaults(once)
           thrice == reset_to_defaults(twice)
       IN  /\ cancel(once).current = current
           /\ cancel(twice).current = current
           /\ cancel(thrice).current = current

\* the first reset is undone by cancel(); after a second reset in a row the
\* snapshot holds the defaults, and cancel() gives the defaults
SecondResetSnapshotsDefaults ==
    LET once  == reset_to_defaults(Store)
        twice == reset_to_defaults(once)
    IN  /\ cancel(once).current = current
        /\ twice.before_reset = <<DEFAULTS>>
        /\ cancel(twice).current = DEFAULTS

-----------------------------------------------------------------------------
(* Properties of the dispatcher, under SpecKeys *)

\* the key sets the dispatcher tests an event against: those it has, read from
\* the host first if it has not loaded any yet
KeySets == IF ~event_filter.shortcuts_loaded
           THEN update_shortcut_keys(event_filter)
           ELSE event_filter

\* the event's key combination is one the dispatcher has for either action
Bound(event) ==
    get_key_combo(event) \in KeySets.decrease_keys \cup KeySets.increase_keys

\* C20: whatever the handlers' states, a key-down flagged as auto-repeat whose
\* key combination is bound to either shortcut is consumed, and all it does to
\* the handlers is the stale check on both: no start_press, no end_press, no
\* key added to or taken from the pressed keys.
C20_AutoRepeatSuppressed ==
    \A event \in KeyEvents :
        (event.type = "KeyPress" /\ event.isAutoRepeat /\ Bound(event))
        => LET r == eventFilter(event_filter, World, event)
           IN  /\ r.result
               /\ r.world = check_stale_handlers(World)
               /\ r.filter.pressed_keys = event_filter.pressed_keys

\* an event was consumed although neither handler has ever been pressed: an
\* auto-repeat of a bound key
C20_Witness ==
    /\ last_result = "True"
    /\ event_filter.decrease_keys # {}
    /\ event_filter.pressed_keys = {}
    /\ \A h \in Handlers : handler[h].press_start_time = 0 /\ handler[h].trigger_count = 0

\* C21: after the dispatcher has handled a focus loss or a window
\* deactivation, neither handler is pressed, both timers of both handlers are
\* disarmed, and the dispatcher's pressed keys are empty.
C21_FocusLossReleasesAll ==
    \A event \in WindowEvents :
        event.type \in {"FocusOut", "WindowDeactivate"}
        => LET r == eventFilter(event_filter, World, event)
           IN  /\ \A h \in Handlers :
                     /\ ~r.world.handler[h].is_pressed
                     /\ r.world.handler[h].timer = NoTimer
                     /\ r.world.handler[h].burst_timer = NoTimer
               /\ r.filter.pressed_keys = {}
               /\ ~r.result

\* a press that came through the action's signal, with no shortcut known to
\* the dispatcher, has been released before it went stale: by a focus loss or a
\* deactivation
C21_Witness ==
    /\ shortcuts = NoShortcuts
    /\ event_filter.pressed_keys = {}
    /\ \A h \in Handlers : Idle(handler[h])
    /\ \E h \in Handlers :
          /\ handler[h].last_release_time > 0
          /\ handler[h].last_release_time - handler[h].press_start_time <= STALE_STATE_TIMEOUT

\* the key sets of the two handlers, as the dispatcher tests them
KeysOf(h) == IF h = "decrease" THEN KeySets.decrease_keys ELSE KeySets.increase_keys

\* the key-up events that are not repeats and carry a key
KeyUps ==
    {event \in KeyEvents : /\ event.type = "KeyRelease"
                           /\ ~event.isAutoRepeat
                           /\ get_key_combo(event) # NoCombo}

\* C22: a key-up that is not a repeat and whose key code, modifiers ignored,
\* is that of a shortcut of a pressed handler ends the press of that handler,
\* through end_press unless the stale check stopped it first, whatever the
\* modifiers of the event; a key-up whose key code is that of no pressed
\* handler's shortcut calls end_press on no handler.
C22_ReleaseIgnoresModifiers ==
    \A event \in KeyUps :
        LET r  == eventFilter(event_filter, World, event)
            w1 == check_stale_handlers(World)
            matches(h) == key_in_set_ignoring_modifiers(event.key, KeysOf(h))
        IN  /\ \A h \in Handlers :
                  (matches(h) /\ handler[h].is_pressed)
                  => /\ ~r.world.handler[h].is_pressed
                     /\ ~is_stale_state(handler[h])
                        => /\ r.world = end_press(World, h)
                           /\ r.world.handler[h].last_release_time = now
                           /\ r.result
            /\ (\A h \in Handlers : matches(h) => ~w1.handler[h].is_pressed)
               => r.world = w1 /\ ~r.result

\* the key to decrease went down alone through the dispatcher and came up
\* with other modifiers: the press has ended, and the combination that went
\* down is still among the pressed keys
C22_Witness ==
    /\ now = StartTime
    /\ event_filter.pressed_keys = {<<"BracketLeft", {}>>}
    /\ Idle(handler["decrease"])
    /\ handler["decrease"].last_release_time = now
    /\ handler["increase"].press_start_time = 0


\* C37 as claimed: a key-up that is not a repeat, for a key combination bound
\* to a shortcut whose handler is pressed, ends the press through end_press:
\* the handler is not pressed, its last_release_time is the time of the event,
\* and the event is consumed.
C37_KeyUpStampsRelease ==
    \A event \in KeyUps : \A h \in Handlers :
        (get_key_combo(event) \in KeysOf(h) /\ handler[h].is_pressed)
        => LET r == eventFilter(event_filter, World, event)
           IN  /\ r.world = end_press(World, h)
               /\ r.world.handler[h].last_release_time = now
               /\ r.result

\* the key-down events that are not repeats and carry a key
KeyDowns ==
    {event \in KeyEvents : /\ event.type = "KeyPress"
                           /\ ~event.isAutoRepeat
                           /\ get_key_combo(event) # NoCombo}

\* C38 as claimed: a key-down that is not a repeat, for a key combination
\* bound to a shortcut whose handler is not pressed, makes the dispatcher call
\* start_press on that handler and consume the event; and every key
\* combination among the dispatcher's pressed keys is that of a handler that
\* is pressed.
C38_KeyDownStartsPress ==
    /\ \A event \in KeyDowns : \A h \in Handlers :
          (get_key_combo(event) \in KeysOf(h) /\ ~handler[h].is_pressed)
          => LET r == eventFilter(event_filter, World, event)
             IN  /\ r.world = start_press(check_stale_handlers(World), h)
                 /\ r.world.handler[h].is_pressed
                 /\ r.result
    /\ \A key_combo \in event_filter.pressed_keys :
          \E h \in Handlers : key_combo \in KeysOf(h) /\ handler[h].is_pressed

\* no handler of the world w is stale
NoneStale(w) == \A g \in Handlers : ~is_stale_state(w.handler[g])

-----------------------------------------------------------------------------
(* Properties of the handlers under a failing host, under SpecHost *)

\* C23 as claimed: whatever the host does to the calls of the size getter and
\* of the action, no handler is left pressed with a burst active and neither
\* timer armed.
C23_HostFailureLeavesTimer ==
    \A h \in Handlers :
        (handler[h].is_pressed /\ handler[h].burst_active)
        => (handler[h].burst_timer # NoTimer \/ handler[h].timer # NoTimer)

\* what holds of C23: without the host (no instance, or no view) the size is
\* None and the action is not fired, and start_press, the burst step and the
\* poll tick do to the handler all that they do with the host
HostAbsenceCompletes ==
    [][\A h \in Handlers :
          (host \in {"noview", "down"} /\ (StartPress(h) \/ BurstTimeout(h)))
          => (/\ handler'[h].trigger_count = IF handler[h].is_pressed
                                             THEN handler[h].trigger_count + 1
                                             ELSE 1
              /\ handler'[h].burst_active <=> handler'[h].burst_timer # NoTimer
              /\ handler'[h].is_pressed
              /\ brush_size' = brush_size)]_vars

-----------------------------------------------------------------------------
(* Properties of a press under fair timers, under SpecFair *)

\* C25: with hold enabled throughout, a press that is not released and not
\* force-stopped becomes a hold. When its burst finishes, press_start_time and
\* last_trigger_time are set to that time and the poll timer is armed; a tick
\* of the poll timer that finds the time since press_start_time at or above
\* HOLD_DETECT_TIME makes the handler HOLD; and every pressed handler is
\* eventually HOLD, or no longer pressed.
C25_PressBecomesHold ==
    /\ [][\A h \in Handlers :
             (handler[h].burst_active /\ ~handler'[h].burst_active /\ handler'[h].is_pressed)
             => /\ handler'[h].press_start_time = now
                /\ handler'[h].last_trigger_time = now
                /\ handler'[h].timer = now + timer_interval]_vars
    /\ [][\A h \in Handlers :
             (/\ PollTimeout(h)
              /\ handler[h].is_pressed
              /\ now - handler[h].press_start_time >= handler[h].cfg.HOLD_DETECT_TIME
              /\ now - handler[h].press_start_time <= MAX_PRESS_DURATION)
             => handler'[h].current_mode = HOLD]_vars
    /\ \A h \in Handlers :
          handler[h].is_pressed ~> (handler[h].current_mode = HOLD \/ ~handler[h].is_pressed)

\* a press of a burst of three is a hold, its times counted from the end of
\* the burst, two periods of the burst timer after the press
C25_Witness ==
    /\ Decrease.is_pressed
    /\ Decrease.current_mode = HOLD
    /\ Decrease.cfg.SLOW_BURST_COUNT = 3
    /\ Decrease.trigger_count >= Decrease.cfg.SLOW_BURST_COUNT
    /\ Decrease.last_timer_activity - Decrease.press_start_time >= Decrease.cfg.HOLD_DETECT_TIME
    /\ Decrease.press_start_time = StartTime + 2 * Decrease.cfg.SLOW_BURST_INTERVAL

-----------------------------------------------------------------------------
(* Properties of a key kept down in Tap state, under SpecKept *)

\* the longest interval of the Tap branch of _get_current_interval: at
\* elapsed time 0
TapBaseInterval == get_current_interval([current_mode |-> SLOW_TAP], 0)

\* C28 as claimed: with hold disabled, a key kept down in Tap state after its
\* burst keeps firing from the poll tick at the hyperbolic interval, which is
\* at most its value at elapsed time 0: with every timer firing when it is
\* due, the last trigger is never older than that and one period of the poll
\* timer.
C28_TapKeepsFiring ==
    \A h \in Handlers :
        (/\ handler[h].is_pressed
         /\ ~handler[h].cfg.HOLD_ENABLED
         /\ ~handler[h].burst_active
         /\ handler[h].current_mode = SLOW_TAP)
        => now - handler[h].last_trigger_time <= TapBaseInterval + timer_interval

\* what the poll tick does in Tap state: nothing but note its activity
TapTickFiresNothing ==
    [][\A h \in Handlers :
          (PollTimeout(h) /\ handler'[h].current_mode # HOLD)
          => /\ handler'[h].trigger_count = handler[h].trigger_count
             /\ brush_size' = brush_size]_vars

-----------------------------------------------------------------------------
(* Properties of the store as built from host storage, under SpecLoad *)

\* what a key is to hold after the load: the stored value in the key's type,
\* the compiled-in default when nothing is stored or when what is stored
\* cannot be coerced to that type
LoadedOrDefault(key, value_str) ==
    IF key \in BoolKeys THEN ParseBool(value_str)
    ELSE IF value_str.kind # "numeral" THEN DEFAULTS[key]
    ELSE IF key \in IntKeys THEN IntOf(value_str.num)
    ELSE value_str.num

\* the store has been built and every key holds its stored value or, failing
\* that, its default, whatever the other keys hold; the last save is the
\* current settings
LoadFellBack ==
    /\ Built
    /\ \A key \in Keys : current[key] = LoadedOrDefault(key, readSetting(storage, key))
    /\ saved = current
    /\ cancel(Store).current = current

\* C33 as claimed: construction never raises; after it, before any call, each
\* key holds its stored value or, when that cannot be coerced to the key's
\* type, its compiled-in default, the other keys unaffected, and the last-saved
\* snapshot equals the current settings, so that a first cancel() changes
\* nothing.
C33_LoadFallsBackPerKey == ncalls = 0 => LoadFellBack

\* construction raises only on a count stored as "inf"; whenever it does not
\* raise, the load has fallen back per key
LoadFallsBackUnlessOverflow ==
    ncalls = 0 =>
        /\ Built <=> \A key \in IntKeys : ~IntOverflows(readSetting(storage, key))
        /\ Built => LoadFellBack

-----------------------------------------------------------------------------
(* Properties of a long burst, under SpecBurst *)

\* C35 as claimed: a handler with a burst in progress (burst steps remaining,
\* burst timer armed) is never stale: is_stale_state() is false and
\* check_and_fix_stale_state() leaves it as it is, so an event that reaches the
\* dispatcher in the middle of the burst does not cut it short.
C35_BurstNeverStale ==
    \A h \in Handlers :
        (/\ handler[h].burst_active
         /\ handler[h].burst_remaining > 0
         /\ handler[h].burst_timer # NoTimer)
        => /\ ~is_stale_state(handler[h])
           /\ check_and_fix_stale_state(World, h) = World
           /\ \A event \in WindowEvents :
                 event.type = "Paint"
                 => eventFilter(event_filter, World, event).world.handler[h] = handler[h]

\* a handler whose burst is in progress is stale as soon as its press is more
\* than STALE_STATE_TIMEOUT old, since only start_press and the poll tick stamp
\* last_timer_activity
BurstStaleByPressTime ==
    \A h \in Handlers :
        (handler[h].burst_active /\ handler[h].burst_timer # NoTimer)
        => /\ handler[h].last_timer_activity = handler[h].press_start_time
           /\ is_stale_state(handler[h])
                 <=> now - handler[h].press_start_time > STALE_STATE_TIMEOUT

-----------------------------------------------------------------------------
(* Properties of a burst under settings pushes, under SpecPush *)

\* the step is a settings push
Pushes == \E kv \in PushInputs : Set(kv[1], kv[2])

\* C36: a settings push leaves the burst in flight as it is (steps to fire,
\* interval, timer), and the next burst step still counts down from the steps
\* left and schedules the one after it at the interval fixed when the burst
\* started; the pushed count, interval and multiplier are used by the next
\* start_press.
C36_PushLeavesBurst ==
    /\ [][\A h \in Handlers :
            Pushes
            => /\ handler'[h].burst_active = handler[h].burst_active
               /\ handler'[h].burst_remaining = handler[h].burst_remaining
               /\ handler'[h].current_burst_interval = handler[h].current_burst_interval
               /\ handler'[h].burst_timer = handler[h].burst_timer
               /\ handler'[h].trigger_count = handler[h].trigger_count]_vars
    /\ [][\A h \in Handlers :
            (BurstTimeout(h) /\ handler[h].is_pressed /\ handler[h].burst_remaining > 0)
            => /\ handler'[h].trigger_count = handler[h].trigger_count + 1
               /\ handler[h].burst_remaining > 1
                     => /\ handler'[h].burst_remaining = handler[h].burst_remaining - 1
                        /\ handler'[h].current_burst_interval = handler[h].current_burst_interval
                        /\ handler'[h].burst_timer = now + handler[h].current_burst_interval]_vars
    /\ [][\A h \in Handlers :
            (~handler[h].is_pressed /\ StartPress(h))
            => /\ handler'[h].burst_remaining = ExpectedCount(handler[h]) - 1
               /\ handler'[h].current_burst_interval = ExpectedInterval(handler[h])]_vars

\* a burst of three steps 5 ms apart has fired two of them and waits for the
\* third while the handler has been given a count of five, 10 ms apart
C36_Witness ==
    \E h \in Handlers :
        /\ handler[h].is_pressed
        /\ handler[h].burst_active
        /\ handler[h].trigger_count = 2
        /\ handler[h].burst_remaining = 1
        /\ handler[h].current_burst_interval = 5
        /\ handler[h].burst_timer = now + 5
        /\ handler[h].cfg.SLOW_BURST_COUNT = 5
        /\ handler[h].cfg.SLOW_BURST_INTERVAL = 10

=============================================================================
